---- MODULE Spec2Model ----
(***************************************************************************)
(* A model of the annotation engine of yolo-studio:                        *)
(*   - the coordinate conversions of services/yoloService.ts,              *)
(*   - the pointer-gesture handlers of the Canvas component together with  *)
(*     the App state they read and write,                                  *)
(*   - the per-detection ingestion loop of autoLabelImage.                 *)
(* JavaScript numbers are modelled as exact rationals extended with NaN    *)
(* and +/-Infinity (a record [n, d] in lowest terms, d = 0 for the         *)
(* non-finite values); floating-point rounding is not modelled.            *)
(***************************************************************************)
EXTENDS Integers, Sequences, FiniteSets, TLC

VARIABLES
    \* Canvas component state (useState hooks)
    isDragging, dragStart, activeCreation, draggingAnnotationId, resizeHandle,
    \* App state read and written by the Canvas
    toolMode, zoom, pan, selectedAnnId, currentLabelId, image,
    \* environment of the editor: button state, id source, last event, counters
    pointer, nextId, ev, gestures, modeChanges, grab, began,
    \* coordinate round trip
    rtIn, rtMid, rtOut, rtPc,
    \* autoLabelImage: the parsed response and the forEach loop over it
    alImage, alLabels, alMinConfidence, results, idx, newAnnotations,
    filteredByConfidence, invalidBoxes, unknownLabels, alPc, alNextId,
    \* autoLabelImage: the config argument, and what each iteration did
    alConfig, outcomes,
    \* autoLabelImage: the error its promise is rejected with
    alError,
    \* autoLabelImage: the text of the detector's response, and the calls of
    \* JSON.parse made on it so far (a history)
    response, parsed,
    \* retryAsync around the detector request: loop counter, next delay, the
    \* requests sent and the sleeps taken so far, the error kept
    attempt, retryDelay, requests, sleeps, lastError,
    \* App state of the dataset: the images with their annotations, the label
    \* list, the active image, the busy flag of the auto-label button, the
    \* handleAutoLabel calls suspended at their await, a count of the
    \* operations done, and the archives imported so far (a history)
    images, labels, selectedImageId, isProcessingAI, inFlight, edits, imports,
    \* MergeModal: its isOpen prop, its two selections, and the calls of its
    \* onMerge prop so far (a history)
    mergeOpen, sourceId, targetId, merges

canvasVars == <<isDragging, dragStart, activeCreation, draggingAnnotationId, resizeHandle>>
appVars == <<toolMode, zoom, pan, selectedAnnId, currentLabelId, image>>
envVars == <<pointer, nextId, ev, gestures, modeChanges, grab, began>>
editorVars == <<canvasVars, appVars, envVars>>
rtVars == <<rtIn, rtMid, rtOut, rtPc>>
callVars == <<attempt, retryDelay, requests, sleeps, lastError>>
parseVars == <<response, parsed>>
ingestVars == <<alImage, alLabels, alMinConfidence, results, idx, newAnnotations,
                filteredByConfidence, invalidBoxes, unknownLabels, alPc, alNextId,
                alConfig, outcomes, alError, callVars, parseVars>>
dsVars == <<images, labels, selectedImageId, isProcessingAI, inFlight, edits, imports>>
mergeVars == <<mergeOpen, sourceId, targetId, merges>>
datasetVars == <<dsVars, mergeVars>>
vars == <<editorVars, rtVars, ingestVars, datasetVars>>

----------------------------------------------------------------------------
(* JavaScript numbers as extended rationals *)

Abs(i) == IF i < 0 THEN -i ELSE i

Sign(i) == IF i > 0 THEN 1 ELSE IF i < 0 THEN -1 ELSE 0

RECURSIVE GCD(_, _)
GCD(a, b) == IF b = 0 THEN a ELSE GCD(b, a % b)

\* the number n/d in lowest terms; d = 0 gives Infinity, -Infinity or NaN (0/0)
Num(n, d) ==
    IF d = 0 THEN [n |-> Sign(n), d |-> 0]
    ELSE LET g == GCD(Abs(n), Abs(d))
             s == IF d < 0 THEN -1 ELSE 1
         IN  [n |-> (s * n) \div g, d |-> (s * d) \div g]

I(i) == Num(i, 1)

NaN == [n |-> 0, d |-> 0]

IsNaN(a) == a.d = 0 /\ a.n = 0

IsFinite(a) == a.d # 0

Add(a, b) ==
    IF a.d = 0 /\ b.d = 0
    THEN (IF a.n = b.n THEN a ELSE NaN)
    ELSE Num(a.n * b.d + b.n * a.d, a.d * b.d)

Neg(a) == [n |-> -a.n, d |-> a.d]

Sub(a, b) == Add(a, Neg(b))

Mul(a, b) == Num(a.n * b.n, a.d * b.d)

\* x / 0 is +/-Infinity and 0 / 0 is NaN, as in JavaScript
Div(a, b) ==
    IF IsNaN(a) \/ IsNaN(b) THEN NaN
    ELSE IF b.d = 0 THEN (IF a.d = 0 THEN NaN ELSE I(0))
    ELSE IF b.n = 0 THEN Num(a.n, 0)
    ELSE Mul(a, Num(b.d, b.n))

\* a < b; every comparison with NaN is false
Lt(a, b) ==
    IF IsNaN(a) \/ IsNaN(b) THEN FALSE
    ELSE IF a.d = 0 /\ b.d = 0 THEN a.n < b.n
    ELSE IF a.d = 0 THEN a.n < 0
    ELSE IF b.d = 0 THEN b.n > 0
    ELSE a.n * b.d < b.n * a.d

Gt(a, b) == Lt(b, a)

Le(a, b) == ~IsNaN(a) /\ ~IsNaN(b) /\ ~Lt(b, a)

Ge(a, b) == Le(b, a)

\* Math.min, Math.max, Math.abs (NaN is contagious)
MathMin(a, b) == IF IsNaN(a) \/ IsNaN(b) THEN NaN ELSE IF Lt(b, a) THEN b ELSE a

MathMax(a, b) == IF IsNaN(a) \/ IsNaN(b) THEN NaN ELSE IF Lt(a, b) THEN b ELSE a

MathAbs(a) == [n |-> Abs(a.n), d |-> a.d]

Pt(x, y) == [x |-> x, y |-> y]

----------------------------------------------------------------------------
(* services/yoloService.ts: normalized center form <-> pixel corner form *)

yoloToSvg(bbox, imgWidth, imgHeight) ==
    LET w == Mul(bbox.w, imgWidth)
        h == Mul(bbox.h, imgHeight)
        x == Sub(Mul(bbox.x, imgWidth), Div(w, I(2)))
        y == Sub(Mul(bbox.y, imgHeight), Div(h, I(2)))
    IN  [x |-> x, y |-> y, w |-> w, h |-> h]

\* variant: the top-left corner is stored as if it were the centre
svgToYoloCorner(x, y, w, h, imgWidth, imgHeight) ==
    [x |-> Div(x, imgWidth), y |-> Div(y, imgHeight),
     w |-> Div(w, imgWidth), h |-> Div(h, imgHeight)]

svgToYolo(x, y, w, h, imgWidth, imgHeight) ==
    LET cx == Div(Add(x, Div(w, I(2))), imgWidth)
        cy == Div(Add(y, Div(h, I(2))), imgHeight)
        nw == Div(w, imgWidth)
        nh == Div(h, imgHeight)
    IN  [x |-> cx, y |-> cy, w |-> nw, h |-> nh]

----------------------------------------------------------------------------
(* Bounds of the exploration *)

\* pointer-down events per behaviour
MaxGestures == 1

\* tool-mode changes per behaviour
MaxModeChanges == 1

----------------------------------------------------------------------------
(* components/Canvas.tsx and the App state behind its props *)

Null == <<>>

Some(v) == <<v>>

NoId == 0

MinBoxPx == 5

ToolModes == {"SELECT", "DRAW", "PAN"}

\* client position of the untransformed container's top-left corner
Origin == Pt(I(0), I(0))

\* client positions at which the button is pressed: the corners and the middle
\* of the imported box as rendered at zoom 1, and a point of empty canvas
DownCursors ==
    { Pt(I(20), I(10)), Pt(I(40), I(10)), Pt(I(20), I(30)), Pt(I(40), I(30)),
      Pt(I(30), I(20)), Pt(I(60), I(35)) }

\* client positions the pointer is moved to
MoveCursors ==
    { Pt(I(10), I(5)), Pt(I(40), I(30)), Pt(I(65), I(45)) }

\* the annotation an imported image starts with: pixel rectangle 20,10 20x20
ImportedBox ==
    [id |-> 1, labelId |-> "0", x |-> Num(3, 10), y |-> Num(2, 5), w |-> Num(1, 5), h |-> Num(2, 5)]

deriveStatus(annotations) == IF Len(annotations) > 0 THEN "in-progress" ELSE "unlabeled"

\* getBoundingClientRect() of the container, which is rendered with
\* transform: translate(pan) scale(zoom) about its top-left corner
containerRect ==
    [left |-> Add(Origin.x, pan.x), top |-> Add(Origin.y, pan.y),
     width |-> Mul(image.width, zoom), height |-> Mul(image.height, zoom)]

getMousePos(c) ==
    LET rect == containerRect
    IN  Pt(Div(Sub(Sub(c.x, rect.left), pan.x), zoom),
           Div(Sub(Sub(c.y, rect.top), pan.y), zoom))

\* the point of the container's own coordinate system rendered under client position c
LocalPoint(c) ==
    Pt(Div(Sub(c.x, containerRect.left), zoom), Div(Sub(c.y, containerRect.top), zoom))

InRect(q, r) ==
    /\ Le(r.x, q.x) /\ Le(q.x, Add(r.x, r.w))
    /\ Le(r.y, q.y) /\ Le(q.y, Add(r.y, r.h))

\* the four handle circles of a rendered rectangle, radius 5 / zoom
HandleCentre(r, handle) ==
    CASE handle = "tl" -> Pt(r.x, r.y)
      [] handle = "tr" -> Pt(Add(r.x, r.w), r.y)
      [] handle = "bl" -> Pt(r.x, Add(r.y, r.h))
      [] handle = "br" -> Pt(Add(r.x, r.w), Add(r.y, r.h))

InHandle(q, r, handle) ==
    LET k == HandleCentre(r, handle)
        dx == Sub(q.x, k.x)
        dy == Sub(q.y, k.y)
        rad == Div(I(5), zoom)
    IN  Le(Add(Mul(dx, dx), Mul(dy, dy)), Mul(rad, rad))

\* handles are painted in the order tl, tr, bl, br: the last one hit is on top
HandleAt(q, r) ==
    IF InHandle(q, r, "br") THEN "br"
    ELSE IF InHandle(q, r, "bl") THEN "bl"
    ELSE IF InHandle(q, r, "tr") THEN "tr"
    ELSE IF InHandle(q, r, "tl") THEN "tl"
    ELSE "null"

\* what one annotation's <g> offers at q: a handle, its rect, or nothing
HitOfAnn(q, ann) ==
    LET r == yoloToSvg(ann, image.width, image.height)
        h == IF selectedAnnId = ann.id /\ toolMode = "SELECT" THEN HandleAt(q, r) ELSE "null"
    IN  IF h # "null" THEN [kind |-> "handle", id |-> ann.id, handle |-> h]
        ELSE IF InRect(q, r) THEN [kind |-> "ann", id |-> ann.id, handle |-> "null"]
        ELSE [kind |-> "canvas", id |-> NoId, handle |-> "null"]

\* the topmost element among the first k annotations (later ones are painted on top)
RECURSIVE HitAmong(_, _)
HitAmong(q, k) ==
    IF k = 0 THEN [kind |-> "canvas", id |-> NoId, handle |-> "null"]
    ELSE LET hit == HitOfAnn(q, image.annotations[k])
         IN  IF hit.kind # "canvas" THEN hit ELSE HitAmong(q, k - 1)

\* the element that receives a mouse-down at client position c
Target(c) ==
    LET q == LocalPoint(c)
        inside == InRect(q, [x |-> I(0), y |-> I(0), w |-> image.width, h |-> image.height])
    IN  IF ~inside THEN [kind |-> "outside", id |-> NoId, handle |-> "null"]
        ELSE HitAmong(q, Len(image.annotations))

findAnn(id) ==
    LET hits == {i \in 1..Len(image.annotations) : image.annotations[i].id = id}
    IN  IF hits = {} THEN Null ELSE Some(image.annotations[CHOOSE i \in hits : \A j \in hits : i <= j])

\* App.updateAnnotations
updateAnnotations(newAnnotations_) ==
    image' = [image EXCEPT !.annotations = newAnnotations_, !.status = deriveStatus(newAnnotations_)]

\* variant: the rectangle keeps the anchor as its corner and a signed size
CreationRectSigned(start, p) ==
    [x |-> start.x, y |-> start.y, w |-> Sub(p.x, start.x), h |-> Sub(p.y, start.y)]

\* the in-progress rectangle of a create drag from start to p
CreationRect(start, p) ==
    LET w == Sub(p.x, start.x)
        h == Sub(p.y, start.y)
    IN  [x |-> IF Gt(w, I(0)) THEN start.x ELSE p.x,
         y |-> IF Gt(h, I(0)) THEN start.y ELSE p.y,
         w |-> MathAbs(w),
         h |-> MathAbs(h)]

\* variant: the dragged corner follows the cursor and the size is kept
ResizeRectDragsBox(rect, handle, p) ==
    IF handle \in {"tl", "bl"}
    THEN [x |-> p.x, y |-> rect.y, w |-> MathMax(rect.w, I(5)), h |-> MathMax(rect.h, I(5))]
    ELSE [x |-> rect.x, y |-> p.y, w |-> MathMax(rect.w, I(5)), h |-> MathMax(rect.h, I(5))]

\* variant: the dragged corner follows the cursor without a minimum extent
ResizeRectNoMinimum(rect, handle, p) ==
    CASE handle = "tl" ->
            [x |-> p.x, y |-> p.y,
             w |-> Sub(Add(rect.x, rect.w), p.x), h |-> Sub(Add(rect.y, rect.h), p.y)]
      [] handle = "tr" ->
            [x |-> rect.x, y |-> p.y,
             w |-> Sub(p.x, rect.x), h |-> Sub(Add(rect.y, rect.h), p.y)]
      [] handle = "bl" ->
            [x |-> p.x, y |-> rect.y,
             w |-> Sub(Add(rect.x, rect.w), p.x), h |-> Sub(p.y, rect.y)]
      [] OTHER ->
            [x |-> rect.x, y |-> rect.y, w |-> Sub(p.x, rect.x), h |-> Sub(p.y, rect.y)]

\* the pixel rectangle of a resize with the cursor at p
ResizeRect(rect, handle, p) ==
    CASE handle = "tl" ->
            LET brX == Add(rect.x, rect.w)
                brY == Add(rect.y, rect.h)
                newX == MathMin(p.x, Sub(brX, I(MinBoxPx)))
                newY == MathMin(p.y, Sub(brY, I(MinBoxPx)))
            IN  [x |-> newX, y |-> newY, w |-> Sub(brX, newX), h |-> Sub(brY, newY)]
      [] handle = "tr" ->
            LET blX == rect.x
                blY == Add(rect.y, rect.h)
                newY == MathMin(p.y, Sub(blY, I(MinBoxPx)))
            IN  [x |-> rect.x, y |-> newY,
                 w |-> MathMax(Sub(p.x, blX), I(MinBoxPx)), h |-> Sub(blY, newY)]
      [] handle = "bl" ->
            LET trX == Add(rect.x, rect.w)
                trY == rect.y
                newX == MathMin(p.x, Sub(trX, I(MinBoxPx)))
            IN  [x |-> newX, y |-> rect.y,
                 w |-> Sub(trX, newX), h |-> MathMax(Sub(p.y, trY), I(MinBoxPx))]
      [] handle = "br" ->
            [x |-> rect.x, y |-> rect.y,
             w |-> MathMax(Sub(p.x, rect.x), I(MinBoxPx)),
             h |-> MathMax(Sub(p.y, rect.y), I(MinBoxPx))]
      [] OTHER -> rect

\* variant: the list is filtered down to the annotation changed
withGeometryAlone(annotations, id, g) ==
    SelectSeq([i \in 1..Len(annotations) |->
                  IF annotations[i].id = id
                  THEN [annotations[i] EXCEPT !.x = g.x, !.y = g.y, !.w = g.w, !.h = g.h]
                  ELSE annotations[i]],
              LAMBDA a : a.id = id)

\* the annotation list with the geometry of annotation id replaced
withGeometry(annotations, id, g) ==
    [i \in 1..Len(annotations) |->
        IF annotations[i].id = id
        THEN [annotations[i] EXCEPT !.x = g.x, !.y = g.y, !.w = g.w, !.h = g.h]
        ELSE annotations[i]]

\* variant: the moved centre is clamped into [0, 1]
movedByClamped(annotations, id, start, p) ==
    LET dx == Div(Sub(p.x, start.x), image.width)
        dy == Div(Sub(p.y, start.y), image.height)
    IN  [i \in 1..Len(annotations) |->
            IF annotations[i].id = id
            THEN [annotations[i] EXCEPT !.x = MathMax(I(0), MathMin(I(1), Add(@, dx))),
                                        !.y = MathMax(I(0), MathMin(I(1), Add(@, dy)))]
            ELSE annotations[i]]

\* the annotation list with annotation id moved by the drag from start to p
movedBy(annotations, id, start, p) ==
    LET dx == Div(Sub(p.x, start.x), image.width)
        dy == Div(Sub(p.y, start.y), image.height)
    IN  [i \in 1..Len(annotations) |->
            IF annotations[i].id = id
            THEN [annotations[i] EXCEPT !.x = Add(@, dx), !.y = Add(@, dy)]
            ELSE annotations[i]]

\* variant: a rectangle of exactly the minimum size is accepted
CreationAcceptedAtMinimum(rect) == Ge(rect.w, I(MinBoxPx)) /\ Ge(rect.h, I(MinBoxPx))

\* whether the finished rectangle becomes an annotation
CreationAccepted(rect) == Gt(rect.w, I(MinBoxPx)) /\ Gt(rect.h, I(MinBoxPx))

----------------------------------------------------------------------------
(* The editor's events.  ev records the last event: its type and the       *)
(* branch of the handler that ran.                                         *)
(* grab records, for a box picked up in Select mode, where the pointer (p) *)
(* and the box (x, y, w, h) were at pointer-down and where the pointer was *)
(* at the last event (last), while only the move branch has acted.         *)

Event(type, branch) == [type |-> type, branch |-> branch]

\* began records the tool mode and the target of the pointer-down that began
\* the gesture in progress
NoGesture == [mode |-> "none", target |-> "none"]

NoGrab ==
    [active |-> FALSE, id |-> NoId, p |-> Origin, last |-> Origin,
     x |-> I(0), y |-> I(0), w |-> I(0), h |-> I(0)]

\* variant: the pan anchor is taken in image space, like the draw anchor
handleMouseDownImageAnchor(c) ==
    LET p == getMousePos(c)
    IN  IF toolMode = "DRAW"
        THEN /\ isDragging' = TRUE
             /\ activeCreation' = Some([x |-> p.x, y |-> p.y, w |-> I(0), h |-> I(0)])
             /\ dragStart' = Some(p)
             /\ selectedAnnId' = NoId
        ELSE IF toolMode = "PAN"
        THEN /\ isDragging' = TRUE
             /\ dragStart' = Some(p)
             /\ UNCHANGED <<activeCreation, selectedAnnId>>
        ELSE /\ selectedAnnId' = NoId
             /\ UNCHANGED <<isDragging, dragStart, activeCreation>>

\* Canvas.handleMouseDown: a mouse-down that reaches the container
handleMouseDown(c) ==
    LET p == getMousePos(c)
    IN  IF toolMode = "PAN"
        THEN /\ isDragging' = TRUE
             /\ dragStart' = Some(c)
             /\ UNCHANGED <<activeCreation, selectedAnnId>>
        ELSE IF toolMode = "DRAW"
        THEN /\ isDragging' = TRUE
             /\ activeCreation' = Some([x |-> p.x, y |-> p.y, w |-> I(0), h |-> I(0)])
             /\ dragStart' = Some(p)
             /\ selectedAnnId' = NoId
        ELSE /\ selectedAnnId' = NoId
             /\ UNCHANGED <<isDragging, dragStart, activeCreation>>

\* Canvas.handleAnnMouseDown: a mouse-down on an annotation's rect
handleAnnMouseDown(c, id) ==
    IF toolMode = "SELECT"
    THEN /\ selectedAnnId' = id
         /\ isDragging' = TRUE
         /\ dragStart' = Some(getMousePos(c))
         /\ draggingAnnotationId' = id
    ELSE UNCHANGED <<selectedAnnId, isDragging, dragStart, draggingAnnotationId>>

\* Canvas.handleResizeStart: a mouse-down on a handle of the selected box
handleResizeStart(handle) ==
    /\ resizeHandle' = handle
    /\ isDragging' = TRUE

\* a mouse-down at c delivered to element t: its handler runs, and
\* stopPropagation keeps the event from the handlers of the elements below
deliverMouseDown(c, t) ==
    /\ CASE t.kind = "handle" ->
               /\ handleResizeStart(t.handle)
               /\ UNCHANGED <<dragStart, activeCreation, draggingAnnotationId, selectedAnnId>>
          [] t.kind = "ann" ->
               /\ handleAnnMouseDown(c, t.id)
               /\ UNCHANGED <<activeCreation, resizeHandle>>
          [] t.kind = "canvas" ->
               /\ handleMouseDown(c)
               /\ UNCHANGED <<draggingAnnotationId, resizeHandle>>
          [] OTHER ->
               UNCHANGED <<canvasVars, selectedAnnId>>
    /\ ev' = Event("down", t.kind)
    /\ began' = [mode |-> toolMode, target |-> t.kind]
    /\ grab' = IF t.kind = "ann" /\ toolMode = "SELECT"
               THEN LET a == findAnn(t.id)[1]
                    IN  [active |-> TRUE, id |-> t.id, p |-> getMousePos(c), last |-> getMousePos(c),
                         x |-> a.x, y |-> a.y, w |-> a.w, h |-> a.h]
               ELSE NoGrab

\* the browser delivers a mouse-down to the topmost element under the pointer
MouseDown(c) ==
    /\ UNCHANGED <<rtVars, ingestVars, datasetVars>>
    /\ pointer = "up"
    /\ gestures < MaxGestures
    /\ deliverMouseDown(c, Target(c))
    /\ pointer' = "down"
    /\ gestures' = gestures + 1
    /\ UNCHANGED modeChanges
    /\ UNCHANGED <<toolMode, zoom, pan, currentLabelId, image, nextId>>

\* which branch of handleMouseMove runs
MoveBranch ==
    IF toolMode = "PAN" /\ isDragging /\ dragStart # Null THEN "pan"
    ELSE IF toolMode = "DRAW" /\ isDragging /\ dragStart # Null THEN "create"
    ELSE IF toolMode = "SELECT" /\ resizeHandle # "null" /\ selectedAnnId # NoId THEN "resize"
    ELSE IF toolMode = "SELECT" /\ isDragging /\ draggingAnnotationId # NoId THEN "move"
    ELSE "none"

\* Canvas.handleMouseMove
handleMouseMove(c) ==
    LET p == getMousePos(c)
        branch == MoveBranch
    IN  CASE branch = "pan" ->
               /\ pan' = Pt(Add(pan.x, Sub(c.x, dragStart[1].x)), Add(pan.y, Sub(c.y, dragStart[1].y)))
               /\ dragStart' = Some(c)
               /\ UNCHANGED <<activeCreation, image>>
          [] branch = "create" ->
               /\ activeCreation' = Some(CreationRect(dragStart[1], p))
               /\ UNCHANGED <<pan, dragStart, image>>
          [] branch = "resize" ->
               LET found == findAnn(selectedAnnId)
               IN  /\ IF found # Null
                      THEN LET ann == found[1]
                               rect == yoloToSvg(ann, image.width, image.height)
                               new == ResizeRect(rect, resizeHandle, p)
                               newYolo == svgToYolo(new.x, new.y, new.w, new.h, image.width, image.height)
                           IN  updateAnnotations(withGeometry(image.annotations, ann.id, newYolo))
                      ELSE UNCHANGED image
                   /\ UNCHANGED <<pan, dragStart, activeCreation>>
          [] branch = "move" ->
               LET found == findAnn(draggingAnnotationId)
               IN  IF found # Null /\ dragStart # Null
                   THEN /\ updateAnnotations(movedBy(image.annotations, draggingAnnotationId, dragStart[1], p))
                        /\ dragStart' = Some(p)
                        /\ UNCHANGED <<pan, activeCreation>>
                   ELSE UNCHANGED <<pan, dragStart, activeCreation, image>>
          [] OTHER ->
               UNCHANGED <<pan, dragStart, activeCreation, image>>

MouseMove(c) ==
    /\ UNCHANGED <<rtVars, ingestVars, datasetVars>>
    /\ handleMouseMove(c)
    /\ ev' = Event("move", MoveBranch)
    /\ began' = began
    /\ grab' = IF grab.active /\ MoveBranch = "move"
               THEN [grab EXCEPT !.last = getMousePos(c)]
               ELSE NoGrab
    /\ UNCHANGED <<isDragging, draggingAnnotationId, resizeHandle>>
    /\ UNCHANGED <<toolMode, zoom, selectedAnnId, currentLabelId, pointer, nextId, gestures, modeChanges>>

\* Canvas.handleMouseUp, the handler of both mouseup and mouseleave
handleMouseUp ==
    /\ IF toolMode = "DRAW" /\ activeCreation # Null
       THEN /\ IF CreationAccepted(activeCreation[1])
               THEN LET r == activeCreation[1]
                        yoloBox == svgToYolo(r.x, r.y, r.w, r.h, image.width, image.height)
                        newAnn == [id |-> nextId, labelId |-> currentLabelId,
                                   x |-> yoloBox.x, y |-> yoloBox.y, w |-> yoloBox.w, h |-> yoloBox.h]
                    IN  /\ updateAnnotations(Append(image.annotations, newAnn))
                        /\ selectedAnnId' = newAnn.id
                        /\ nextId' = nextId + 1
               ELSE UNCHANGED <<image, selectedAnnId, nextId>>
            /\ activeCreation' = Null
       ELSE UNCHANGED <<image, selectedAnnId, nextId, activeCreation>>
    /\ isDragging' = FALSE
    /\ dragStart' = Null
    /\ draggingAnnotationId' = NoId
    /\ resizeHandle' = "null"

UpBranch ==
    IF toolMode = "DRAW" /\ activeCreation # Null
    THEN (IF CreationAccepted(activeCreation[1]) THEN "finalize" ELSE "discard")
    ELSE "none"

MouseUp ==
    /\ UNCHANGED <<rtVars, ingestVars, datasetVars>>
    /\ pointer = "down"
    /\ handleMouseUp
    /\ ev' = Event("up", UpBranch)
    /\ grab' = NoGrab
    /\ began' = NoGesture
    /\ pointer' = "up"
    /\ UNCHANGED <<toolMode, zoom, pan, currentLabelId, gestures, modeChanges>>

\* the pointer leaves the canvas, with the button held or not
MouseLeave ==
    /\ UNCHANGED <<rtVars, ingestVars, datasetVars>>
    /\ ev.type # "leave"
    /\ handleMouseUp
    /\ ev' = Event("leave", UpBranch)
    /\ grab' = NoGrab
    /\ began' = NoGesture
    /\ pointer' = "up"
    /\ UNCHANGED <<toolMode, zoom, pan, currentLabelId, gestures, modeChanges>>

\* App.handleKeyDown, keys v / r / h, and the tool buttons
SetToolMode(m) ==
    /\ UNCHANGED <<rtVars, ingestVars, datasetVars>>
    /\ toolMode # m
    /\ modeChanges < MaxModeChanges
    /\ toolMode' = m
    /\ modeChanges' = modeChanges + 1
    /\ ev' = Event("key", m)
    /\ UNCHANGED <<canvasVars, zoom, pan, selectedAnnId, currentLabelId, image>>
    /\ UNCHANGED <<pointer, nextId, gestures, grab, began>>

\* App.handleDeleteAnnotation, by the Delete key or the Delete button
DeleteAnnotation ==
    /\ UNCHANGED <<rtVars, ingestVars, datasetVars>>
    /\ selectedAnnId # NoId
    /\ updateAnnotations(SelectSeq(image.annotations, LAMBDA a : a.id # selectedAnnId))
    /\ selectedAnnId' = NoId
    /\ ev' = Event("key", "delete")
    /\ grab' = IF grab.id = selectedAnnId THEN NoGrab ELSE grab
    /\ began' = began
    /\ UNCHANGED <<canvasVars, toolMode, zoom, pan, currentLabelId>>
    /\ UNCHANGED <<pointer, nextId, gestures, modeChanges>>

----------------------------------------------------------------------------
(* The editor specification *)

RtIdle ==
    /\ rtIn = Null /\ rtMid = Null /\ rtOut = Null /\ rtPc = "off"

\* an AutoLabelConfig with no property set
NoConfig == [model |-> Null, minConfidence |-> Null, maxRetries |-> Null]

\* retryAsync not entered
CallIdle ==
    /\ attempt = 0 /\ retryDelay = 0 /\ requests = <<>> /\ sleeps = <<>> /\ lastError = Null

IngestIdle ==
    /\ alImage = Null /\ alLabels = <<>> /\ alMinConfidence = NaN /\ results = <<>>
    /\ idx = 0 /\ newAnnotations = <<>> /\ filteredByConfidence = 0 /\ invalidBoxes = 0
    /\ unknownLabels = 0 /\ alPc = "off" /\ alNextId = 0
    /\ alConfig = NoConfig /\ outcomes = <<>> /\ alError = Null
    /\ response = Null /\ parsed = <<>>
    /\ CallIdle

\* constants.ts: DEFAULT_LABELS (the colour of a label is left out)
DEFAULT_LABELS ==
    << [id |-> "0", name |-> <<"p", "e", "r", "s", "o", "n">>],
       [id |-> "1", name |-> <<"c", "a", "r">>],
       [id |-> "2", name |-> <<"d", "o", "g">>] >>

\* the App as mounted, with no image uploaded, and the merge dialog closed
DatasetIdle ==
    /\ images = <<>> /\ labels = DEFAULT_LABELS /\ selectedImageId = NoId
    /\ isProcessingAI = FALSE /\ inFlight = <<>> /\ edits = 0 /\ imports = <<>>
    /\ mergeOpen = FALSE /\ sourceId = "" /\ targetId = "" /\ merges = <<>>

\* a decoded 100 x 50 image, fresh or imported with one annotation
InitialImages ==
    { [width |-> I(100), height |-> I(50), annotations |-> <<>>, status |-> "unlabeled"],
      [width |-> I(100), height |-> I(50), annotations |-> <<ImportedBox>>, status |-> "done"] }

EditorInit ==
    /\ isDragging = FALSE
    /\ dragStart = Null
    /\ activeCreation = Null
    /\ draggingAnnotationId = NoId
    /\ resizeHandle = "null"
    /\ toolMode \in ToolModes
    /\ zoom \in {I(1), Num(1, 2)}
    /\ pan = Pt(I(0), I(0))
    /\ image \in InitialImages
    /\ selectedAnnId \in {NoId} \cup {image.annotations[i].id : i \in 1..Len(image.annotations)}
    /\ currentLabelId = "1"
    /\ pointer = "up"
    /\ nextId = 2
    /\ ev = Event("init", "none")
    /\ gestures = 0
    /\ modeChanges = 0
    /\ grab = NoGrab
    /\ began = NoGesture

Init == EditorInit /\ RtIdle /\ IngestIdle /\ DatasetIdle

Next ==
    \/ \E c \in DownCursors : MouseDown(c)
    \/ \E c \in MoveCursors : MouseMove(c)
    \/ MouseUp
    \/ MouseLeave
    \/ \E m \in ToolModes : SetToolMode(m)
    \/ DeleteAnnotation

Spec == Init /\ [][Next]_vars

\* the images a zip import makes the active one: not decoded yet, with the
\* annotations of their label file
UndecodedImages ==
    { [width |-> I(0), height |-> I(0), annotations |-> <<>>, status |-> "unlabeled"],
      [width |-> I(0), height |-> I(0),
       annotations |-> <<[ImportedBox EXCEPT !.id = nextId]>>, status |-> "done"] }

\* App.handleZipUpload resuming after its awaits: setSelectedImageId makes
\* an imported image the image prop of the Canvas, which keeps its own state
ImageReplaced(img) ==
    /\ UNCHANGED <<rtVars, ingestVars, datasetVars>>
    /\ Gt(image.width, I(0))
    /\ image' = img
    /\ nextId' = nextId + Len(img.annotations)
    /\ ev' = Event("import", "none")
    /\ grab' = NoGrab
    /\ began' = began
    /\ UNCHANGED <<canvasVars, toolMode, zoom, pan, selectedAnnId, currentLabelId>>
    /\ UNCHANGED <<pointer, gestures, modeChanges>>

SwitchNext ==
    \/ Next
    \/ \E img \in UndecodedImages : ImageReplaced(img)

\* the editor while a zip import completes
SpecSwitch == Init /\ [][SwitchNext]_vars

----------------------------------------------------------------------------
(* The coordinate conversions applied to drawn inputs, in both orders *)

EditorIdle ==
    /\ isDragging = FALSE /\ dragStart = Null /\ activeCreation = Null
    /\ draggingAnnotationId = NoId /\ resizeHandle = "null"
    /\ toolMode = "SELECT" /\ zoom = I(1) /\ pan = Origin /\ selectedAnnId = NoId
    /\ currentLabelId = "0"
    /\ image = [width |-> I(0), height |-> I(0), annotations |-> <<>>, status |-> "unlabeled"]
    /\ pointer = "up" /\ nextId = 1 /\ ev = Event("init", "none")
    /\ gestures = 0 /\ modeChanges = 0 /\ grab = NoGrab /\ began = NoGesture

\* image sizes W x H
RtSizes == { Pt(I(1), I(1)), Pt(I(640), I(480)), Pt(I(7), I(3)) }

\* normalized boxes with w, h > 0
RtBoxes ==
    [x : {I(0), Num(1, 3), Num(1, 2), I(1)}, y : {I(0), Num(1, 3), Num(1, 2), I(1)},
     w : {Num(1, 10), Num(1, 3), I(1)}, h : {Num(1, 10), Num(1, 3), I(1)}]

\* pixel rectangles
RtRects ==
    [x : {I(-5), I(0), I(10)}, y : {I(-5), I(0), I(10)},
     w : {Num(1, 2), I(5), I(33)}, h : {Num(1, 2), I(5), I(33)}]

RtInit ==
    /\ rtPc \in {"box", "rect"}
    /\ \E size \in RtSizes :
         \E g \in (IF rtPc = "box" THEN RtBoxes ELSE RtRects) :
            rtIn = Some([g |-> g, size |-> size])
    /\ rtMid = Null
    /\ rtOut = Null

BoxToSvg ==
    /\ rtPc = "box"
    /\ rtMid' = Some(yoloToSvg(rtIn[1].g, rtIn[1].size.x, rtIn[1].size.y))
    /\ rtPc' = "box-svg"
    /\ UNCHANGED <<rtIn, rtOut, editorVars, ingestVars, datasetVars>>

SvgBackToYolo ==
    /\ rtPc = "box-svg"
    /\ LET r == rtMid[1]
       IN  rtOut' = Some(svgToYolo(r.x, r.y, r.w, r.h, rtIn[1].size.x, rtIn[1].size.y))
    /\ rtPc' = "box-done"
    /\ UNCHANGED <<rtIn, rtMid, editorVars, ingestVars, datasetVars>>

RectToYolo ==
    /\ rtPc = "rect"
    /\ LET r == rtIn[1].g
       IN  rtMid' = Some(svgToYolo(r.x, r.y, r.w, r.h, rtIn[1].size.x, rtIn[1].size.y))
    /\ rtPc' = "rect-yolo"
    /\ UNCHANGED <<rtIn, rtOut, editorVars, ingestVars, datasetVars>>

YoloBackToSvg ==
    /\ rtPc = "rect-yolo"
    /\ rtOut' = Some(yoloToSvg(rtMid[1], rtIn[1].size.x, rtIn[1].size.y))
    /\ rtPc' = "rect-done"
    /\ UNCHANGED <<rtIn, rtMid, editorVars, ingestVars, datasetVars>>

RtNext == BoxToSvg \/ SvgBackToYolo \/ RectToYolo \/ YoloBackToSvg

InitRoundTrip == RtInit /\ EditorIdle /\ IngestIdle /\ DatasetIdle

SpecRoundTrip == InitRoundTrip /\ [][RtNext]_vars

----------------------------------------------------------------------------
(* services/geminiService: autoLabelImage, from the parsed response on.    *)
(* A JavaScript value is a record: its type t, its characters s when it is *)
(* a string, its numeric reading v (what Number() returns for it) and its  *)
(* elements a when it is an array.  A detection is a record of the values  *)
(* of its label, box_2d and confidence properties; t = "null" for a null   *)
(* array element.                                                          *)

\* detections per response
MaxDetections == 2

JUndefined == [t |-> "undefined", s |-> <<>>, v |-> NaN, a |-> <<>>]

JNull == [t |-> "null", s |-> <<>>, v |-> I(0), a |-> <<>>]

JNumber(v) == [t |-> "number", s |-> <<>>, v |-> v, a |-> <<>>]

\* a string with its characters and the number it reads as
JString(s, v) == [t |-> "string", s |-> s, v |-> v, a |-> <<>>]

JBoolean(b) == [t |-> "boolean", s |-> <<>>, v |-> IF b THEN I(1) ELSE I(0), a |-> <<>>]

JArray(a) == [t |-> "array", s |-> <<>>, v |-> NaN, a |-> a]

\* JavaScript truthiness, as tested by !res.label and !res.box_2d
Truthy(j) ==
    CASE j.t \in {"undefined", "null"} -> FALSE
      [] j.t = "string" -> j.s # <<>>
      [] j.t \in {"number", "boolean"} -> ~IsNaN(j.v) /\ j.v # I(0)
      [] OTHER -> TRUE

\* Number(j) for the scalar values the inputs draw
ToNumber(j) ==
    CASE j.t = "undefined" -> NaN
      [] j.t = "null" -> I(0)
      [] j.t \in {"number", "boolean", "string"} -> j.v
      [] OTHER -> NaN

UpperCase == <<"A", "B", "C", "D", "E", "G", "O", "R", "T">>

LowerCase == <<"a", "b", "c", "d", "e", "g", "o", "r", "t">>

toLowerCase(str) ==
    [i \in 1..Len(str) |->
        IF \E k \in 1..Len(UpperCase) : UpperCase[k] = str[i]
        THEN LowerCase[CHOOSE k \in 1..Len(UpperCase) : UpperCase[k] = str[i]]
        ELSE str[i]]

RECURSIVE trim(_)
trim(str) ==
    IF str = <<>> THEN str
    ELSE IF Head(str) = " " THEN trim(Tail(str))
    ELSE IF str[Len(str)] = " " THEN trim(SubSeq(str, 1, Len(str) - 1))
    ELSE str

\* String.prototype.includes
includes(str, part) ==
    \E i \in 0..(Len(str) - Len(part)) : SubSeq(str, i + 1, i + Len(part)) = part

\* Map.prototype.set on a map kept as its entries in insertion order
mapSet(m, key, value) ==
    IF \E i \in 1..Len(m) : m[i].key = key
    THEN [i \in 1..Len(m) |-> IF m[i].key = key THEN [key |-> key, value |-> value] ELSE m[i]]
    ELSE Append(m, [key |-> key, value |-> value])

\* new Map(activeLabels.map(l => [l.name.toLowerCase().trim(), l]))
RECURSIVE labelMapOf(_)
labelMapOf(activeLabels) ==
    IF activeLabels = <<>> THEN <<>>
    ELSE LET l == activeLabels[Len(activeLabels)]
         IN  mapSet(labelMapOf(SubSeq(activeLabels, 1, Len(activeLabels) - 1)),
                    trim(toLowerCase(l.name)), l)

\* variant: the inclusion test runs first, so a substring match can win
\* over the exact name
resolveLabelInclusionFirst(labelMap, resLabel) ==
    LET fuzzy == {i \in 1..Len(labelMap) :
                    includes(resLabel, labelMap[i].key) \/ includes(labelMap[i].key, resLabel)}
    IN  IF fuzzy # {} THEN Some(labelMap[CHOOSE i \in fuzzy : \A j \in fuzzy : i <= j].value)
        ELSE Null

\* the label a detected name resolves to: the exact key, else the first entry
\* that contains it or is contained in it
resolveLabel(labelMap, resLabel) ==
    LET exact == {i \in 1..Len(labelMap) : labelMap[i].key = resLabel}
        fuzzy == {i \in 1..Len(labelMap) :
                    includes(resLabel, labelMap[i].key) \/ includes(labelMap[i].key, resLabel)}
    IN  IF exact # {} THEN Some(labelMap[CHOOSE i \in exact : TRUE].value)
        ELSE IF fuzzy # {} THEN Some(labelMap[CHOOSE i \in fuzzy : \A j \in fuzzy : i <= j].value)
        ELSE Null

\* box[i] of a JavaScript array, zero-based; undefined reads as NaN
At(box, i) == IF i + 1 <= Len(box) THEN box[i + 1] ELSE NaN

validateBBox(box) ==
    /\ Len(box) = 4
    /\ \A i \in 1..Len(box) : ~IsNaN(box[i])

MIN_SIZE == Num(1, 100)

clamp01(v) == MathMax(I(0), MathMin(I(1), v))

clampBBox(box) ==
    LET c == [i \in 1..Len(box) |-> clamp01(box[i])]
        ySmall == Lt(Sub(c[3], c[1]), MIN_SIZE)
        yCenter == Div(Add(c[1], c[3]), I(2))
        ymin == IF ySmall THEN MathMax(I(0), Sub(yCenter, Div(MIN_SIZE, I(2)))) ELSE c[1]
        ymax == IF ySmall THEN MathMin(I(1), Add(yCenter, Div(MIN_SIZE, I(2)))) ELSE c[3]
        xSmall == Lt(Sub(c[4], c[2]), MIN_SIZE)
        xCenter == Div(Add(c[2], c[4]), I(2))
        xmin == IF xSmall THEN MathMax(I(0), Sub(xCenter, Div(MIN_SIZE, I(2)))) ELSE c[2]
        xmax == IF xSmall THEN MathMin(I(1), Add(xCenter, Div(MIN_SIZE, I(2)))) ELSE c[4]
    IN  <<ymin, xmin, ymax, xmax>>

\* variant: the axes are mixed up, y divided by the width and x by the height
normalizeBoxSwappedAxes(box, img) ==
    IF \E i \in 1..Len(box) : Gt(box[i], I(1))
    THEN IF Gt(img.width, I(0)) /\ Gt(img.height, I(0))
         THEN Some(<<Div(At(box, 0), img.width), Div(At(box, 1), img.height),
                     Div(At(box, 2), img.width), Div(At(box, 3), img.height)>>)
         ELSE Null
    ELSE Some(box)

\* step 4 of the loop body: pixel coordinates are divided by the image size
normalizeBox(box, img) ==
    IF \E i \in 1..Len(box) : Gt(box[i], I(1))
    THEN IF Gt(img.width, I(0)) /\ Gt(img.height, I(0))
         THEN Some(<<Div(At(box, 0), img.height), Div(At(box, 1), img.width),
                     Div(At(box, 2), img.height), Div(At(box, 3), img.width)>>)
         ELSE Null
    ELSE Some(box)

\* the two swaps that undo inverted coordinates
uninvert(box) ==
    LET b1 == IF Gt(At(box, 0), At(box, 2))
              THEN [box EXCEPT ![1] = box[3], ![3] = box[1]] ELSE box
    IN  IF Gt(At(b1, 1), At(b1, 3))
        THEN [b1 EXCEPT ![2] = b1[4], ![4] = b1[2]] ELSE b1

Outcome(kind, labelId, confidence, g) ==
    [kind |-> kind, labelId |-> labelId, confidence |-> confidence,
     x |-> g[1], y |-> g[2], w |-> g[3], h |-> g[4]]

NoGeometry == <<NaN, NaN, NaN, NaN>>

\* Number(res.confidence ?? 1.0)
confidenceOf(res) ==
    IF res.confidence.t \in {"undefined", "null"} THEN I(1) ELSE ToNumber(res.confidence)

\* variant: a detection exactly at the threshold is filtered too
belowThresholdInclusive(confidence, minConfidence) == Le(confidence, minConfidence)

\* confidence < minConfidence
belowThreshold(confidence, minConfidence) == Lt(confidence, minConfidence)

\* variant: the top-left corner is stored where the centre belongs
toYoloCorner(labelId, confidence, c) ==
    LET w == Sub(c[4], c[2])
        h == Sub(c[3], c[1])
    IN  IF Le(w, I(0)) \/ Le(h, I(0))
        THEN Outcome("invalid", "", confidence, NoGeometry)
        ELSE Outcome("emit", labelId, confidence, <<c[2], c[1], w, h>>)

\* the clamped corners [ymin, xmin, ymax, xmax] as a centre-form annotation,
\* unless the width or the height is not positive
toYolo(labelId, confidence, c) ==
    LET w == Sub(c[4], c[2])
        h == Sub(c[3], c[1])
    IN  IF Le(w, I(0)) \/ Le(h, I(0))
        THEN Outcome("invalid", "", confidence, NoGeometry)
        ELSE Outcome("emit", labelId, confidence,
                     <<Add(c[2], Div(w, I(2))), Add(c[1], Div(h, I(2))), w, h>>)

\* the steps after the swaps: validateBBox, clampBBox, conversion and push
finishBox(labelId, confidence, box) ==
    IF ~validateBBox(box) THEN Outcome("invalid", "", confidence, NoGeometry)
    ELSE toYolo(labelId, confidence, clampBBox(box))

\* the body of results.forEach for one element: what it does with it.
\* "throw" is a TypeError raised by reading a property of null or by calling
\* a method the value does not have; it leaves the loop and the function.
processItem(res, labelMap, minConfidence, img) ==
    IF res.t = "null" THEN Outcome("throw", "", NaN, NoGeometry)
    ELSE IF ~Truthy(res.label) \/ ~Truthy(res.box_2d) THEN Outcome("skip", "", NaN, NoGeometry)
    ELSE IF res.label.t # "string" THEN Outcome("throw", "", NaN, NoGeometry)
    ELSE
    LET resLabel == trim(toLowerCase(res.label.s))
        labelObj == resolveLabel(labelMap, resLabel)
        confidence == confidenceOf(res)
    IN  IF labelObj = Null THEN Outcome("unknown", "", NaN, NoGeometry)
        ELSE IF belowThreshold(confidence, minConfidence)
        THEN Outcome("filtered", "", confidence, NoGeometry)
        ELSE IF res.box_2d.t # "array" THEN Outcome("throw", "", NaN, NoGeometry)
        ELSE
        LET raw == [i \in 1..Len(res.box_2d.a) |-> ToNumber(res.box_2d.a[i])]
            norm == normalizeBox(raw, img)
        IN  IF norm = Null THEN Outcome("invalid", "", confidence, NoGeometry)
            ELSE
            finishBox(labelObj[1].id, confidence, uninvert(norm[1]))

\* an error by the class of its message, and the request that raised it
\* (0 when it was not raised by a request)
Error(kind, request) == [kind |-> kind, request |-> request]

\* the catch block of autoLabelImage: an error whose message names the API
\* key, the quota or the network is replaced by a new Error with a fixed
\* message; any other error is rethrown as it is
surfaced(error) ==
    [class |-> CASE error.kind = "auth" -> "AuthError"
                 [] error.kind = "quota" -> "QuotaError"
                 [] error.kind = "network" -> "NetworkError"
                 [] OTHER -> "rethrown",
     cause |-> error]

\* what the iteration leaves behind: a pushed annotation or a counter; a
\* throw ends the call, since the catch block rethrows: the promise is
\* rejected and nothing is returned
settle(o) ==
    /\ alPc' = IF o.kind = "throw" THEN "rejected" ELSE "loop"
    /\ newAnnotations' =
          IF o.kind = "emit"
          THEN Append(newAnnotations,
                      [id |-> alNextId, labelId |-> o.labelId, x |-> o.x, y |-> o.y,
                       w |-> o.w, h |-> o.h, confidence |-> o.confidence])
          ELSE newAnnotations
    /\ alNextId' = IF o.kind = "emit" THEN alNextId + 1 ELSE alNextId
    /\ filteredByConfidence' = filteredByConfidence + (IF o.kind = "filtered" THEN 1 ELSE 0)
    /\ invalidBoxes' = invalidBoxes + (IF o.kind = "invalid" THEN 1 ELSE 0)
    /\ unknownLabels' = unknownLabels + (IF o.kind = "unknown" THEN 1 ELSE 0)
    /\ outcomes' = Append(outcomes, o)
    /\ alError' = IF o.kind = "throw" THEN Some(surfaced(Error("TypeError", 0))) ELSE alError

\* one iteration of results.forEach
ProcessDetection ==
    /\ alPc = "loop"
    /\ idx < Len(results)
    /\ settle(processItem(results[idx + 1], labelMapOf(alLabels), alMinConfidence, alImage[1]))
    /\ idx' = idx + 1
    /\ UNCHANGED <<alImage, alLabels, alMinConfidence, results, alConfig, callVars,
                   parseVars>>
    /\ UNCHANGED <<editorVars, rtVars, datasetVars>>

\* the loop is over: return newAnnotations
ReturnAnnotations ==
    /\ alPc = "loop"
    /\ idx = Len(results)
    /\ alPc' = "returned"
    /\ UNCHANGED <<alImage, alLabels, alMinConfidence, results, idx, newAnnotations,
                   filteredByConfidence, invalidBoxes, unknownLabels, alNextId,
                   alConfig, outcomes, alError, callVars, parseVars>>
    /\ UNCHANGED <<editorVars, rtVars, datasetVars>>

\* one generateContent request: the model asked for, the attempt of retryAsync
\* it belongs to, and how it ended
Request(model, n, result) == [model |-> model, attempt |-> n, result |-> result]

\* const { model = 'gemini-3-flash-preview' } = config
DefaultModel ==
    <<"g", "e", "m", "i", "n", "i", "-", "3", "-", "f", "l", "a", "s", "h", "-",
      "p", "r", "e", "v", "i", "e", "w">>

\* retryAsync: retryDelay: number = 1000
BaseDelay == 1000

\* a destructuring default: const { p = d } = config
withDefault(property, default) == IF property = Null THEN default ELSE property[1]

\* const { minConfidence = 0.93 } = config
DefaultMinConfidence == Num(93, 100)

----------------------------------------------------------------------------
(* The response text of the detector and its parsing.  A text is a        *)
(* sequence of tokens: a character, or the JSON text of one value, kept   *)
(* whole with the value it parses to.                                     *)

Ch(c) == [c |-> c, o |-> Null]

\* the JSON text of the value o
Lit(o) == [c |-> "value", o |-> Some(o)]

Chars(s) == [i \in 1..Len(s) |-> Ch(s[i])]

\* [a-zA-Z], for the letters the texts draw
Letters == {"j", "s", "o", "n", "H", "e", "r", "k"}

\* whitespace, for String.prototype.trim and JSON.parse
WhiteSpace == {" ", "\n"}

\* String.prototype.trim on a text
RECURSIVE trimText(_)
trimText(s) ==
    IF s = <<>> THEN s
    ELSE IF Head(s).c \in WhiteSpace THEN trimText(Tail(s))
    ELSE IF s[Len(s)].c \in WhiteSpace THEN trimText(SubSeq(s, 1, Len(s) - 1))
    ELSE s

\* s starts with three backticks
startsWithFence(s) ==
    Len(s) >= 3 /\ \A i \in 1..3 : s[i].c = "backtick"

\* [a-zA-Z]* at the start of s: what is left after it
RECURSIVE afterLetters(_)
afterLetters(s) ==
    IF s # <<>> /\ Head(s).c \in Letters THEN afterLetters(Tail(s)) ELSE s

\* \n? at the start of s: what is left after it
afterNewline(s) == IF s # <<>> /\ Head(s).c = "\n" THEN Tail(s) ELSE s

\* text.replace(/FENCE[a-zA-Z]*\n?|\n?FENCE/g, '') where FENCE is three backticks
RECURSIVE replaceFences(_)
replaceFences(s) ==
    IF s = <<>> THEN s
    ELSE IF startsWithFence(s)
         THEN replaceFences(afterNewline(afterLetters(SubSeq(s, 4, Len(s)))))
    ELSE IF Head(s).c = "\n" /\ startsWithFence(Tail(s))
         THEN replaceFences(SubSeq(s, 5, Len(s)))
    ELSE <<Head(s)>> \o replaceFences(Tail(s))

\* the value of the JSON text 1: a number, whose properties are undefined
NumberElement ==
    [t |-> "number", label |-> JUndefined, box_2d |-> JUndefined, confidence |-> JUndefined]

\* the elements of a JSON array between its brackets: values separated by
\* commas, Null when the text is not such a list
RECURSIVE parseElements(_)
parseElements(s) ==
    LET t == trimText(s)
        one(tok) == IF tok.c = "value" THEN Some(tok.o[1])
                    ELSE IF tok.c = "1" THEN Some(NumberElement)
                    ELSE Null
    IN  IF t = <<>> THEN Null
        ELSE IF one(t[1]) = Null THEN Null
        ELSE IF Len(t) = 1 THEN Some(one(t[1]))
        ELSE LET rest == trimText(Tail(t))
             IN  IF rest = <<>> \/ Head(rest).c # "," THEN Null
                 ELSE LET more == parseElements(Tail(rest))
                      IN  IF more = Null THEN Null ELSE Some(one(t[1]) \o more[1])

\* JSON.parse on the grammar the texts draw: one value, or an array of
\* values that are not arrays; Null for a SyntaxError
parseJSON(s) ==
    LET t == trimText(s)
    IN  IF t = <<>> THEN Null
        ELSE IF Len(t) = 1
             THEN IF t[1].c \in {"value", "1"}
                  THEN Some([isArray |-> FALSE, elements |-> <<>>])
                  ELSE Null
        ELSE IF t[1].c = "[" /\ t[Len(t)].c = "]"
             THEN LET inner == trimText(SubSeq(t, 2, Len(t) - 1))
                  IN  IF inner = <<>> THEN Some([isArray |-> TRUE, elements |-> <<>>])
                      ELSE IF parseElements(inner) = Null THEN Null
                      ELSE Some([isArray |-> TRUE, elements |-> parseElements(inner)[1]])
        ELSE Null

matchFirstArray(s) ==
    LET opens == {i \in 1..Len(s) : s[i].c = "["}
        closes == {i \in 1..Len(s) : s[i].c = "]"}
    IN  IF opens = {} THEN Null
        ELSE LET first == CHOOSE i \in opens : \A j \in opens : i <= j
                 after == {j \in closes : j > first}
             IN  IF after = {} THEN Null
                 ELSE Some(SubSeq(s, first, CHOOSE j \in after : \A k \in after : j <= k))

\* text.match(/\[[\s\S]*\]/): from the first [ to the last ], Null without a match
matchArray(s) ==
    LET opens == {i \in 1..Len(s) : s[i].c = "["}
        closes == {i \in 1..Len(s) : s[i].c = "]"}
    IN  IF opens = {} THEN Null
        ELSE LET first == CHOOSE i \in opens : \A j \in opens : i <= j
                 after == {j \in closes : j > first}
             IN  IF after = {} THEN Null
                 ELSE Some(SubSeq(s, first, CHOOSE j \in after : \A k \in after : k <= j))

\* JSON.stringify of an array of values
RECURSIVE joinValues(_)
joinValues(values) ==
    IF values = <<>> THEN <<>>
    ELSE IF Len(values) = 1 THEN <<Lit(values[1])>>
    ELSE <<Lit(values[1]), Ch(",")>> \o joinValues(Tail(values))

stringify(values) == <<Ch("[")>> \o joinValues(values) \o <<Ch("]")>>

\* the retry state of a call whose first request was answered
FirstRequestAnswered ==
    /\ attempt = 0 /\ retryDelay = BaseDelay /\ sleeps = <<>> /\ lastError = Null
    /\ requests = <<Request(DefaultModel, 0, "ok")>>

\* the label set of the call
IngestLabels ==
    << [id |-> "0", name |-> <<"C", "a", "t", " ">>],
       [id |-> "1", name |-> <<"c", "a", "r", "_", "r", "e", "d">>],
       [id |-> "2", name |-> <<"c", "a", "r">>],
       [id |-> "3", name |-> <<"C", "A", "T">>] >>

Detection(label, box_2d, confidence) ==
    [t |-> "object", label |-> label, box_2d |-> box_2d, confidence |-> confidence]

NumBox(a, b, c, d) == JArray(<<JNumber(a), JNumber(b), JNumber(c), JNumber(d)>>)

CatLabel == JString(<<"c", "a", "t">>, NaN)

GoodBox == NumBox(Num(1, 10), Num(1, 5), Num(1, 2), Num(3, 5))

\* the array elements a response is made of
Detections ==
    { Detection(CatLabel, GoodBox, JNumber(Num(95, 100))),
      Detection(JString(<<" ", "C", "A", "T">>, NaN), NumBox(I(10), I(20), I(400), I(300)), JUndefined),
      Detection(JString(<<"c", "a", "r">>, NaN), NumBox(Num(1, 2), Num(1, 2), Num(101, 200), Num(101, 200)), JNumber(I(1))),
      Detection(CatLabel, GoodBox, JNumber(Num(1, 2))),
      Detection(CatLabel, NumBox(Num(499, 500), Num(1, 5), I(1), Num(3, 5)), JNumber(Num(3, 10))),
      Detection(JString(<<"c", "a">>, NaN), GoodBox, JNull),
      Detection(CatLabel, NumBox(Num(1, 2), Num(3, 5), Num(-1, 10), Num(1, 5)), JNumber(I(1))),
      Detection(JString(<<"d", "o", "g">>, NaN), GoodBox, JNumber(I(1))),
      [t |-> "null", label |-> JUndefined, box_2d |-> JUndefined, confidence |-> JUndefined],
      Detection(JNumber(I(7)), GoodBox, JNumber(I(1))),
      Detection(JUndefined, GoodBox, JNumber(I(1))),
      Detection(CatLabel, JUndefined, JNumber(I(1))),
      Detection(CatLabel, JString(<<"0", ",", "1">>, NaN), JNumber(I(1))),
      Detection(CatLabel, JArray(<<JNumber(Num(1, 10)), JNumber(Num(1, 5)), JNumber(Num(1, 2))>>), JNumber(I(1))),
      Detection(CatLabel, JArray(<<JString(<<"0", ".", "1">>, Num(1, 10)), JNull, JBoolean(TRUE), JNumber(Num(1, 2))>>), JNumber(I(1))) }

RECURSIVE SeqsUpTo(_, _)
SeqsUpTo(S, n) ==
    IF n = 0 THEN {<<>>}
    ELSE LET shorter == SeqsUpTo(S, n - 1)
         IN  shorter \cup {Append(q, e) : q \in shorter, e \in S}

IngestInit ==
    /\ alImage \in { Some([width |-> I(640), height |-> I(480)]),
                     Some([width |-> I(640), height |-> I(0)]),
                     Some([width |-> I(0), height |-> I(0)]) }
    /\ alLabels = IngestLabels
    /\ alConfig \in {NoConfig, [NoConfig EXCEPT !.minConfidence = Some(Num(3, 10))]}
    /\ alMinConfidence = withDefault(alConfig.minConfidence, DefaultMinConfidence)
    /\ results \in SeqsUpTo(Detections, MaxDetections)
    /\ idx = 0
    /\ newAnnotations = <<>>
    /\ filteredByConfidence = 0
    /\ invalidBoxes = 0
    /\ unknownLabels = 0
    /\ alPc = "loop"
    /\ alNextId = 1
    /\ outcomes = <<>>
    /\ alError = Null
    /\ response = Some(stringify(results))
    /\ parsed = <<[input |-> stringify(results), ok |-> TRUE]>>
    /\ FirstRequestAnswered

IngestNext == ProcessDetection \/ ReturnAnnotations

InitIngest == IngestInit /\ EditorIdle /\ RtIdle /\ DatasetIdle

SpecIngest == InitIngest /\ [][IngestNext]_vars

----------------------------------------------------------------------------
(* autoLabelImage from the detector's response to the returned annotations *)

\* one call of JSON.parse: its input and whether it returned
ParseCall(input, ok) == [input |-> input, ok |-> ok]

\* the parsed value is kept when it is an array; any other value returns []
accept(value, calls) ==
    /\ parsed' = parsed \o calls
    /\ alError' = alError
    /\ IF value.isArray
       THEN results' = value.elements /\ alPc' = "loop"
       ELSE results' = results /\ alPc' = "returned"

\* throw new Error('Invalid JSON response from Gemini'): the catch block of
\* autoLabelImage finds none of its patterns in the message and rethrows it
reject(calls) ==
    /\ parsed' = parsed \o calls
    /\ results' = results
    /\ alPc' = "rejected"
    /\ alError' = Some(surfaced(Error("parse", 0)))

\* try JSON.parse(text); on a SyntaxError JSON.parse(match[0]) when the text
\* has a bracketed substring
parseWith(text, first, match) ==
    IF first # Null THEN accept(first[1], <<ParseCall(text, TRUE)>>)
    ELSE IF match = Null THEN reject(<<ParseCall(text, FALSE)>>)
    ELSE IF parseJSON(match[1]) = Null
         THEN reject(<<ParseCall(text, FALSE), ParseCall(match[1], FALSE)>>)
    ELSE accept(parseJSON(match[1])[1], <<ParseCall(text, FALSE), ParseCall(match[1], TRUE)>>)

\* the call resumes with the response: an empty text returns [], any other is
\* cleaned of its fence markers, trimmed and parsed
ParseResponse ==
    /\ alPc = "responded"
    /\ IF response[1] = <<>>
       THEN alPc' = "returned" /\ UNCHANGED <<parsed, results, alError>>
       ELSE parseWith(trimText(replaceFences(response[1])),
                      parseJSON(trimText(replaceFences(response[1]))),
                      matchArray(trimText(replaceFences(response[1]))))
    /\ UNCHANGED <<alImage, alLabels, alMinConfidence, idx, newAnnotations,
                   filteredByConfidence, invalidBoxes, unknownLabels, alNextId,
                   alConfig, outcomes, response, callVars>>
    /\ UNCHANGED <<editorVars, rtVars, datasetVars>>

\* the values the response texts carry
ParseValues ==
    { Detection(CatLabel, GoodBox, JNumber(Num(95, 100))),
      Detection(CatLabel, NumBox(I(10), I(20), I(400), I(300)), JNumber(Num(1, 2))),
      Detection(JString(<<"d", "o", "g">>, NaN), GoodBox, JNumber(I(1))) }

Fence == <<Ch("backtick"), Ch("backtick"), Ch("backtick")>>

\* the ways a detector words its answer around the array
Wordings(body) ==
    { body,
      Fence \o Chars(<<"j", "s", "o", "n", "\n">>) \o body \o Chars(<<"\n">>) \o Fence,
      Fence \o body \o Fence,
      Chars(<<"H", "e", "r", "e", "\n">>) \o Fence \o Chars(<<"j", "s", "o", "n", "\n">>)
          \o body \o Chars(<<"\n">>) \o Fence,
      Chars(<<"H", "e", "r", "e", " ">>) \o body \o Chars(<<" ", "o", "k">>),
      Chars(<<" ", "\n">>) \o body \o Chars(<<"\n">>),
      SubSeq(body, 1, Len(body) - 1),
      Tail(body) \o Chars(<<" ", "o", "k">>),
      Chars(<<"[", "1", "]", " ">>) \o body,
      body \o Chars(<<",">>) \o body }

ResponseTexts ==
    UNION {Wordings(stringify(q)) : q \in SeqsUpTo(ParseValues, MaxDetections)}
        \cup {<<>>, Chars(<<" ">>), Chars(<<"1">>), Chars(<<"o", "k">>)}
        \cup {<<Lit(v)>> : v \in ParseValues}
        \cup {Fence \o Chars(<<"\n">>) \o <<Lit(v)>> \o Fence : v \in ParseValues}

ParseInit ==
    /\ alImage = Some([width |-> I(640), height |-> I(480)])
    /\ alLabels = IngestLabels
    /\ alConfig = NoConfig
    /\ alMinConfidence = withDefault(alConfig.minConfidence, DefaultMinConfidence)
    /\ results = <<>>
    /\ idx = 0
    /\ newAnnotations = <<>>
    /\ filteredByConfidence = 0
    /\ invalidBoxes = 0
    /\ unknownLabels = 0
    /\ alPc = "responded"
    /\ alNextId = 1
    /\ outcomes = <<>>
    /\ alError = Null
    /\ response \in {Some(t) : t \in ResponseTexts}
    /\ parsed = <<>>
    /\ FirstRequestAnswered

ParseNext == ParseResponse \/ ProcessDetection \/ ReturnAnnotations

InitParse == ParseInit /\ EditorIdle /\ RtIdle /\ DatasetIdle

SpecParse == InitParse /\ [][ParseNext]_vars

----------------------------------------------------------------------------
(* The detector call of autoLabelImage: retryAsync around the request with
   its model fallback *)

\* the model selector of the editor offers these identifiers among others
Gemini25Flash ==
    <<"g", "e", "m", "i", "n", "i", "-", "2", ".", "5", "-", "f", "l", "a", "s", "h">>

Gemini15Pro ==
    <<"g", "e", "m", "i", "n", "i", "-", "1", ".", "5", "-", "p", "r", "o">>

\* const fallbackModel = 'gemini-2.0-flash'
fallbackModel ==
    <<"g", "e", "m", "i", "n", "i", "-", "2", ".", "0", "-", "f", "l", "a", "s", "h">>

\* const { maxRetries = 3 } = config
DefaultMaxRetries == 3

modelOf(config) == withDefault(config.model, DefaultModel)

maxRetriesOf(config) == withDefault(config.maxRetries, DefaultMaxRetries)

\* how a request to the detector can end, by the class of the error message:
\* "notfound" names 404 or 'not found', "auth" names the API key, "quota"
\* names 429 or the quota, "network" names fetch or the network
DetectorResults == {"ok", "notfound", "auth", "quota", "network"}

\* the condition of the fallback in the catch of the wrapped call
fallsBack(result, model) ==
    /\ result = "notfound"
    /\ \/ includes(model, <<"2", ".", "5">>)
       \/ includes(model, <<"p", "r", "e", "v", "i", "e", "w">>)
       \/ includes(model, <<"f", "l", "a", "s", "h", "-", "8", "b">>)

\* the requests of one run of the wrapped call: the configured model, and the
\* fallback model when the first request fails in the way that falls back
wrappedCall(model, n, first, second) ==
    IF fallsBack(first, model)
    THEN <<Request(model, n, first), Request(fallbackModel, n, second)>>
    ELSE <<Request(model, n, first)>>

loopRunsOneMore(n, maxRetries) == n <= maxRetries + 1

\* for (let attempt = 0; attempt <= maxRetries; attempt++)
loopRuns(n, maxRetries) == n <= maxRetries

\* the part of autoLabelImage before the detector call: the client needs the
\* API key and the image is fetched; a failure goes to the catch block
Prepare ==
    /\ alPc = "start"
    /\ \E outcome \in {"ok", "auth", "network"} :
          IF outcome = "ok"
          THEN alPc' = "call" /\ alError' = alError
          ELSE alPc' = "rejected" /\ alError' = Some(surfaced(Error(outcome, 0)))
    /\ UNCHANGED <<alImage, alLabels, alMinConfidence, results, idx, newAnnotations,
                   filteredByConfidence, invalidBoxes, unknownLabels, alNextId,
                   alConfig, outcomes, callVars, parseVars>>
    /\ UNCHANGED <<editorVars, rtVars, datasetVars>>

\* a detection whose box is given in pixels
PixelDetection ==
    Detection(JString(<<"c", "a", "r">>, NaN), NumBox(I(10), I(20), I(400), I(300)),
              JNumber(I(1)))

\* the response texts of an answered request: no text, no detection, one
\* detection
AnswerTexts == {<<>>, stringify(<<>>), stringify(<<PixelDetection>>)}

\* the body of the retry loop after the wrapped call made the requests made:
\* a response is returned; an error is kept as lastError and, when
\* attempt < maxRetries, followed by the backoff sleep
attempted(made, maxRetries, answer) ==
    /\ requests' = requests \o made
    /\ IF made[Len(made)].result = "ok"
       THEN alPc' = "responded" /\ response' = Some(answer)
            /\ UNCHANGED <<lastError, attempt>>
       ELSE /\ response' = response
            /\ lastError' =
                  Some(Error(made[Len(made)].result, Len(requests) + Len(made)))
            /\ IF attempt < maxRetries
               THEN alPc' = "sleep" /\ attempt' = attempt
               ELSE alPc' = "call" /\ attempt' = attempt + 1

\* one attempt: the loop runs the wrapped call
Attempt ==
    /\ alPc = "call"
    /\ loopRuns(attempt, maxRetriesOf(alConfig))
    /\ \E first \in DetectorResults : \E second \in DetectorResults :
          \E answer \in AnswerTexts :
              attempted(wrappedCall(modelOf(alConfig), attempt, first, second),
                        maxRetriesOf(alConfig), answer)
    /\ UNCHANGED <<alImage, alLabels, alMinConfidence, results, idx, newAnnotations,
                   filteredByConfidence, invalidBoxes, unknownLabels, alNextId,
                   alConfig, outcomes, alError, retryDelay, sleeps, parsed>>
    /\ UNCHANGED <<editorVars, rtVars, datasetVars>>

\* the sleep is over: retryDelay *= 2 and the loop goes to the next attempt
Backoff ==
    /\ alPc = "sleep"
    /\ sleeps' = Append(sleeps, retryDelay)
    /\ retryDelay' = retryDelay * 2
    /\ attempt' = attempt + 1
    /\ alPc' = "call"
    /\ UNCHANGED <<alImage, alLabels, alMinConfidence, results, idx, newAnnotations,
                   filteredByConfidence, invalidBoxes, unknownLabels, alNextId,
                   alConfig, outcomes, alError, requests, lastError, parseVars>>
    /\ UNCHANGED <<editorVars, rtVars, datasetVars>>

\* the loop is over without a response: throw lastError, which the catch block
\* of autoLabelImage surfaces
Exhausted ==
    /\ alPc = "call"
    /\ ~loopRuns(attempt, maxRetriesOf(alConfig))
    /\ alError' = Some(surfaced(lastError[1]))
    /\ alPc' = "rejected"
    /\ UNCHANGED <<alImage, alLabels, alMinConfidence, results, idx, newAnnotations,
                   filteredByConfidence, invalidBoxes, unknownLabels, alNextId,
                   alConfig, outcomes, callVars, parseVars>>
    /\ UNCHANGED <<editorVars, rtVars, datasetVars>>

DetectInit ==
    /\ alImage = Some([width |-> I(640), height |-> I(480)])
    /\ alLabels = IngestLabels
    /\ alConfig \in
          { [model |-> m, minConfidence |-> Null, maxRetries |-> r] :
               m \in {Null, Some(Gemini25Flash), Some(Gemini15Pro)},
               r \in {Null, Some(1)} }
    /\ alMinConfidence = withDefault(alConfig.minConfidence, DefaultMinConfidence)
    /\ results = <<>>
    /\ idx = 0
    /\ newAnnotations = <<>>
    /\ filteredByConfidence = 0
    /\ invalidBoxes = 0
    /\ unknownLabels = 0
    /\ alPc = "start"
    /\ alNextId = 1
    /\ outcomes = <<>>
    /\ alError = Null
    /\ response = Null
    /\ parsed = <<>>
    /\ attempt = 0
    /\ retryDelay = BaseDelay
    /\ requests = <<>>
    /\ sleeps = <<>>
    /\ lastError = Null

DetectNext == Prepare \/ Attempt \/ Backoff \/ Exhausted

InitDetect == DetectInit /\ EditorIdle /\ RtIdle /\ DatasetIdle

SpecDetect == InitDetect /\ [][DetectNext]_vars

----------------------------------------------------------------------------
(* The App component over the whole dataset: uploads, the active image,    *)
(* the annotation edits the Canvas reports, the label list, and            *)
(* handleAutoLabel suspended at its await.  A state update and the render  *)
(* that follows it are one step; a handler reads the state of the render   *)
(* it was created in, which for a suspended handler is the state at its    *)
(* start.                                                                  *)

\* operations per behaviour
MaxEdits == 4

\* images in the dataset
MaxImages == 2

\* images.find(img => img.id === selectedImageId)
currentImageOf(imgs, selected) ==
    LET hits == {i \in 1..Len(imgs) : imgs[i].id = selected}
    IN  IF hits = {} THEN Null ELSE Some(imgs[CHOOSE i \in hits : \A j \in hits : i <= j])

currentImage == currentImageOf(images, selectedImageId)

\* App.updateAnnotations as created in a render whose selectedImageId is
\* selected: setImages(prev => prev.map(...)) on the images of now
setAnnotations(selected, anns) ==
    images' =
        IF selected = NoId THEN images
        ELSE [i \in 1..Len(images) |->
                 IF images[i].id = selected
                 THEN [images[i] EXCEPT !.annotations = anns, !.status = deriveStatus(anns)]
                 ELSE images[i]]

\* one more operation
Counted == edits < MaxEdits /\ edits' = edits + 1

\* App.handleFileUpload with one image file
UploadImage ==
    /\ Counted
    /\ Len(images) < MaxImages
    /\ images' = Append(images, [id |-> nextId, width |-> I(800), height |-> I(600),
                                 annotations |-> <<>>, status |-> "unlabeled"])
    /\ selectedImageId' = IF selectedImageId = NoId THEN nextId ELSE selectedImageId
    /\ nextId' = nextId + 1
    /\ UNCHANGED <<labels, isProcessingAI, inFlight, imports, mergeVars>>
    /\ UNCHANGED <<canvasVars, appVars, pointer, ev, gestures, modeChanges, grab, began>>
    /\ UNCHANGED <<rtVars, ingestVars>>

\* the onClick of an entry of the image list
SelectImage(id) ==
    /\ Counted
    /\ \E i \in 1..Len(images) : images[i].id = id
    /\ selectedImageId' = id
    /\ UNCHANGED <<images, labels, isProcessingAI, inFlight, imports, mergeVars>>
    /\ UNCHANGED <<editorVars, rtVars, ingestVars>>

\* the boxes a draw gesture leaves
DrawnBoxes == { [x |-> Num(1, 2), y |-> Num(1, 2), w |-> Num(1, 4), h |-> Num(1, 4)] }

\* Canvas.handleMouseUp ending a creation on the active image:
\* onUpdateAnnotations([...image.annotations, newAnn])
\* and onSelectAnnotation(newAnn.id)
DrawBox(g) ==
    /\ Counted
    /\ currentImage # Null
    /\ setAnnotations(selectedImageId,
                      Append(currentImage[1].annotations,
                             [id |-> nextId, labelId |-> currentLabelId,
                              x |-> g.x, y |-> g.y, w |-> g.w, h |-> g.h]))
    /\ nextId' = nextId + 1
    /\ selectedAnnId' = nextId
    /\ UNCHANGED <<labels, selectedImageId, isProcessingAI, inFlight, imports, mergeVars>>
    /\ UNCHANGED <<canvasVars, toolMode, zoom, pan, currentLabelId, image>>
    /\ UNCHANGED <<pointer, ev, gestures, modeChanges, grab, began>>
    /\ UNCHANGED <<rtVars, ingestVars>>

\* the displacements of a move gesture, in normalized coordinates
MoveDeltas == { [dx |-> Num(3, 4), dy |-> I(0)] }

\* Canvas.handleAnnMouseDown on a box of the active image followed by
\* Canvas.handleMouseMove in its move branch:
\* onUpdateAnnotations(image.annotations.map(...)) with x + dx, y + dy
MoveBox(id, d) ==
    /\ Counted
    /\ currentImage # Null
    /\ \E j \in 1..Len(currentImage[1].annotations) : currentImage[1].annotations[j].id = id
    /\ setAnnotations(selectedImageId,
                      [j \in 1..Len(currentImage[1].annotations) |->
                          IF currentImage[1].annotations[j].id = id
                          THEN [currentImage[1].annotations[j] EXCEPT
                                   !.x = Add(@, d.dx), !.y = Add(@, d.dy)]
                          ELSE currentImage[1].annotations[j]])
    /\ selectedAnnId' = id
    /\ UNCHANGED <<labels, selectedImageId, isProcessingAI, inFlight, imports, mergeVars>>
    /\ UNCHANGED <<canvasVars, toolMode, zoom, pan, currentLabelId, image, envVars>>
    /\ UNCHANGED <<rtVars, ingestVars>>

\* the geometries a resize gesture leaves
ResizedBoxes == { [x |-> Num(1, 2), y |-> Num(1, 2), w |-> Num(1, 2), h |-> Num(1, 2)] }

\* Canvas.handleResizeStart on a handle of the selected box followed by
\* Canvas.handleMouseMove in its resize branch:
\* onUpdateAnnotations(image.annotations.map(...)) with the new geometry
ResizeBox(g) ==
    /\ Counted
    /\ currentImage # Null
    /\ \E j \in 1..Len(currentImage[1].annotations) :
          currentImage[1].annotations[j].id = selectedAnnId
    /\ setAnnotations(selectedImageId, withGeometry(currentImage[1].annotations, selectedAnnId, g))
    /\ UNCHANGED <<labels, selectedImageId, isProcessingAI, inFlight, imports, mergeVars>>
    /\ UNCHANGED <<canvasVars, appVars, envVars>>
    /\ UNCHANGED <<rtVars, ingestVars>>

\* App.handleDeleteAnnotation
DeleteSelected ==
    /\ Counted
    /\ selectedAnnId # NoId
    /\ currentImage # Null
    /\ setAnnotations(selectedImageId,
                      SelectSeq(currentImage[1].annotations,
                                LAMBDA a : a.id # selectedAnnId))
    /\ selectedAnnId' = NoId
    /\ UNCHANGED <<labels, selectedImageId, isProcessingAI, inFlight, imports, mergeVars>>
    /\ UNCHANGED <<canvasVars, toolMode, zoom, pan, currentLabelId, image, envVars>>
    /\ UNCHANGED <<rtVars, ingestVars>>

autoLabelDisabledWithoutImage(img, busy) == img = Null

\* the disabled attribute of the AI Auto-Label button
autoLabelDisabled(img, busy) == img = Null \/ busy

\* App.handleAutoLabel up to its await: the call keeps the image, the labels
\* and the updateAnnotations of the render it was clicked in
started ==
    /\ Counted
    /\ ~autoLabelDisabled(currentImage, isProcessingAI)
    /\ currentImage # Null
    /\ isProcessingAI' = TRUE
    /\ inFlight' = Append(inFlight, [currentImage |-> currentImage[1],
                                     selectedImageId |-> selectedImageId,
                                     labels |-> labels])
    /\ UNCHANGED <<images, labels, selectedImageId, imports, mergeVars>>
    /\ UNCHANGED <<editorVars, rtVars>>

StartAutoLabel == started /\ UNCHANGED ingestVars

\* what autoLabelImage can settle with for the labels it was given: a
\* rejection, or annotations whose labelId is the id of one of them
AutoLabelOutcomes(activeLabels) ==
    {Null, Some(<<>>)} \cup
    { Some(<<[id |-> nextId, labelId |-> activeLabels[k].id,
              x |-> Num(1, 4), y |-> Num(1, 4), w |-> Num(1, 10), h |-> Num(1, 10)]>>) :
         k \in {1, Len(activeLabels)} \cap DOMAIN activeLabels }

\* i.naturalWidth and i.naturalHeight of the images uploaded
NaturalSize == [width |-> I(640), height |-> I(480)]

\* the onload of the Image created for a new dataset image:
\* setImages(prev => prev.map(...)) with the natural size
ImageLoaded(id) ==
    /\ \E i \in 1..Len(images) :
          images[i].id = id /\ <<images[i].width, images[i].height>>
                                 # <<NaturalSize.width, NaturalSize.height>>
    /\ images' = [i \in 1..Len(images) |->
                     IF images[i].id = id
                     THEN [images[i] EXCEPT !.width = NaturalSize.width,
                                            !.height = NaturalSize.height]
                     ELSE images[i]]
    /\ UNCHANGED <<labels, selectedImageId, isProcessingAI, inFlight, edits, imports,
                   mergeVars>>
    /\ UNCHANGED <<editorVars, rtVars, ingestVars>>

\* what autoLabelImage returns when the loop body did o with the only
\* detection of the response
returned(o) ==
    IF o.kind = "emit"
    THEN Some(<<[id |-> nextId, labelId |-> o.labelId,
                 x |-> o.x, y |-> o.y, w |-> o.w, h |-> o.h]>>)
    ELSE IF o.kind = "throw" THEN Null
    ELSE Some(<<>>)

\* autoLabelImage for a response made of the pixel detection, called with the
\* image and the labels the call keeps and no minConfidence
PixelOutcome(call) ==
    returned(processItem(PixelDetection, labelMapOf(call.labels), DefaultMinConfidence,
                         call.currentImage))

Without(q, k) == SubSeq(q, 1, k - 1) \o SubSeq(q, k + 1, Len(q))

\* variant: the flag is cleared at the end of the try block only
busyAfterReturnOnly(outcome) == outcome = Null

\* isProcessingAI after handleAutoLabel: finally { setIsProcessingAI(false) }
busyAfter(outcome) == FALSE

\* App.handleAutoLabel from its await on: updateAnnotations([...currentImage
\* .annotations, ...newAnns]) when the call returned, the alert when it threw,
\* and setIsProcessingAI(false) in either case
settled(k, outcome) ==
    /\ k \in DOMAIN inFlight
    /\ IF outcome = Null
       THEN UNCHANGED <<images, nextId>>
       ELSE /\ setAnnotations(inFlight[k].selectedImageId,
                              inFlight[k].currentImage.annotations \o outcome[1])
            /\ nextId' = nextId + Len(outcome[1])
    /\ isProcessingAI' = busyAfter(outcome)
    /\ inFlight' = Without(inFlight, k)
    /\ UNCHANGED <<labels, selectedImageId, edits, imports, mergeVars>>
    /\ UNCHANGED <<canvasVars, appVars, pointer, ev, gestures, modeChanges, grab, began>>
    /\ UNCHANGED rtVars

FinishAutoLabel(k, outcome) == settled(k, outcome) /\ UNCHANGED ingestVars

\* a whitespace-separated field of a label file, by what parseInt reads in
\* it (Null for NaN) and what parseFloat reads in it
Field(int, num) == [int |-> int, num |-> num]

IntField(i) == Field(Some(i), I(i))

\* 0.5, 0.25, 0, and a word
Half == Field(Some(0), Num(1, 2))

Quarter == Field(Some(0), Num(1, 4))

Word == Field(Null, NaN)

\* line.trim().split(/\s+/): the fields of a line; a blank line splits into
\* one empty field
parts(line) == IF line = <<>> THEN <<Word>> ELSE line

\* idx.toString() for the indices the archives reach
toString(i) == <<"0", "1", "2", "3", "4", "5">>[i + 1]

\* names.map((name, idx) => ({ id: idx.toString(), name, color }))
labelsFromNames(names) ==
    [i \in 1..Len(names) |-> [id |-> toString(i - 1), name |-> names[i]]]

MaxLabels == 4

\* the effect of MergeModal, run after a render in which isOpen or labels
\* changed
resetSelection(isOpen, ls) ==
    IF isOpen /\ Len(ls) >= 2
    THEN sourceId' = ls[Len(ls)].id /\ targetId' = ls[1].id
    ELSE UNCHANGED <<sourceId, targetId>>

\* the onClick of the add button of the classes list
AddLabel ==
    /\ Counted
    /\ Len(labels) < MaxLabels
    /\ labels' = Append(labels, [id |-> toString(Len(labels)),
                                 name |-> <<"n", "e", "w", "_", "c", "l", "a", "s", "s">>])
    /\ resetSelection(mergeOpen, labels')
    /\ UNCHANGED <<images, selectedImageId, isProcessingAI, inFlight, imports,
                   mergeOpen, merges>>
    /\ UNCHANGED <<editorVars, rtVars, ingestVars>>

\* the names typed into the input of a class
TypedNames == { <<"c", "a", "t">> }

\* the onChange of the input of the class with the given id
RenameLabel(id, val) ==
    /\ Counted
    /\ \E i \in 1..Len(labels) : labels[i].id = id
    /\ labels' = [i \in 1..Len(labels) |->
                     IF labels[i].id = id THEN [labels[i] EXCEPT !.name = val]
                     ELSE labels[i]]
    /\ resetSelection(mergeOpen, labels')
    /\ UNCHANGED <<images, selectedImageId, isProcessingAI, inFlight, imports,
                   mergeOpen, merges>>
    /\ UNCHANGED <<editorVars, rtVars, ingestVars>>

\* the last label for an index past the end
labelAtClamped(activeLabels, clsIdx) ==
    IF clsIdx # Null /\ clsIdx[1] >= 0 /\ activeLabels # <<>>
    THEN Some(activeLabels[IF clsIdx[1] < Len(activeLabels) THEN clsIdx[1] + 1
                           ELSE Len(activeLabels)])
    ELSE Null

\* activeLabels[clsIdx], undefined as Null
labelAt(activeLabels, clsIdx) ==
    IF clsIdx # Null /\ clsIdx[1] >= 0 /\ clsIdx[1] < Len(activeLabels)
    THEN Some(activeLabels[clsIdx[1] + 1])
    ELSE Null

\* lines.forEach of handleZipUpload: the annotations of a label file, with
\* fresh ids from id on
RECURSIVE annotationsOf(_, _, _)
annotationsOf(lines, activeLabels, id) ==
    IF lines = <<>> THEN <<>>
    ELSE IF Len(parts(Head(lines))) >= 5
            /\ labelAt(activeLabels, parts(Head(lines))[1].int) # Null
         THEN << [id |-> id,
                  labelId |-> labelAt(activeLabels, parts(Head(lines))[1].int)[1].id,
                  x |-> parts(Head(lines))[2].num, y |-> parts(Head(lines))[3].num,
                  w |-> parts(Head(lines))[4].num, h |-> parts(Head(lines))[5].num] >>
              \o annotationsOf(Tail(lines), activeLabels, id + 1)
         ELSE annotationsOf(Tail(lines), activeLabels, id)

\* the state updates of handleZipUpload for an archive with the names its
\* data.yaml yields (none without one) and at most one image with its label
\* file; anns are the annotations read for the image
imported(z, activeLabels, anns) ==
    /\ labels' = activeLabels
    /\ currentLabelId' = IF z.names # <<>> THEN activeLabels[1].id ELSE currentLabelId
    /\ images' =
          IF z.image = Null THEN images
          ELSE Append(images,
                      [id |-> nextId + Len(anns), width |-> I(0), height |-> I(0),
                       annotations |-> anns,
                       status |-> IF Len(anns) > 0 THEN "done" ELSE "unlabeled"])
    /\ selectedImageId' = IF z.image = Null THEN selectedImageId ELSE nextId + Len(anns)
    /\ nextId' = IF z.image = Null THEN nextId ELSE nextId + Len(anns) + 1
    /\ imports' = Append(imports,
                         [archive |-> z, activeLabels |-> activeLabels,
                          imageId |-> IF z.image = Null THEN NoId ELSE nextId + Len(anns)])

\* the label list the annotations of an archive are resolved against
activeLabelsFor(z) == IF z.names # <<>> THEN labelsFromNames(z.names) ELSE labels

\* App.handleZipUpload
ImportDataset(z) ==
    /\ Counted
    /\ z.image # Null => Len(images) < MaxImages
    /\ imported(z, activeLabelsFor(z),
                IF z.image = Null THEN <<>>
                ELSE annotationsOf(z.image[1], activeLabelsFor(z), nextId))
    /\ IF z.names # <<>> THEN resetSelection(mergeOpen, labels')
       ELSE UNCHANGED <<sourceId, targetId>>
    /\ UNCHANGED <<isProcessingAI, inFlight, mergeOpen, merges>>
    /\ UNCHANGED <<canvasVars, toolMode, zoom, pan, selectedAnnId, image>>
    /\ UNCHANGED <<pointer, ev, gestures, modeChanges, grab, began>>
    /\ UNCHANGED <<rtVars, ingestVars>>

LabelLine(class) == <<class, Half, Half, Quarter, Quarter>>

\* the archives imported: the names of data.yaml and the lines of the label
\* file of the image
Archives ==
    { [names |-> <<>>,
       image |-> Some(<<LabelLine(IntField(0)), LabelLine(IntField(7)),
                        <<IntField(0), Half, Half>>, <<>>, LabelLine(IntField(1)),
                        LabelLine(IntField(2))>>)],
      [names |-> << <<"c", "a", "t">> >>,
       image |-> Some(<<LabelLine(IntField(1)), LabelLine(IntField(0)),
                        LabelLine(Word), LabelLine(IntField(-1))>>)],
      [names |-> << <<"c", "a", "t">> >>, image |-> Null],
      [names |-> <<>>, image |-> Some(<<>>)],
      [names |-> <<>>,
       image |-> Some(<< <<IntField(2), Word, Half, Quarter, Quarter>>,
                         <<IntField(0), Half, Half, IntField(0), IntField(0), Half>> >>)] }

AppNext ==
    \/ UploadImage
    \/ \E id \in 1..nextId : SelectImage(id)
    \/ \E g \in DrawnBoxes : DrawBox(g)
    \/ \E id \in 1..nextId, d \in MoveDeltas : MoveBox(id, d)
    \/ \E g \in ResizedBoxes : ResizeBox(g)
    \/ DeleteSelected
    \/ \E z \in Archives : ImportDataset(z)
    \/ AddLabel
    \/ \E i \in 1..Len(labels), val \in TypedNames : RenameLabel(labels[i].id, val)
    \/ StartAutoLabel
    \/ \E k \in DOMAIN inFlight :
          \E outcome \in AutoLabelOutcomes(inFlight[k].labels) \cup {PixelOutcome(inFlight[k])} :
             FinishAutoLabel(k, outcome)
    \/ \E id \in 1..nextId : ImageLoaded(id)

InitApp == DatasetIdle /\ EditorIdle /\ RtIdle /\ IngestIdle

SpecApp == InitApp /\ [][AppNext]_vars

(***************************************************************************)
(* Label merge: the merge dialog and the merge it asks for                 *)
(***************************************************************************)

\* the isOpen prop of MergeModal becoming true
OpenMerge ==
    /\ ~mergeOpen
    /\ mergeOpen' = TRUE
    /\ resetSelection(TRUE, labels)
    /\ UNCHANGED <<dsVars, merges, editorVars, rtVars, ingestVars>>

\* onClose of the dialog: the isOpen prop becoming false
CloseMerge ==
    /\ mergeOpen
    /\ mergeOpen' = FALSE
    /\ resetSelection(FALSE, labels)
    /\ UNCHANGED <<dsVars, merges, editorVars, rtVars, ingestVars>>

\* the onChange of the source select: the options are the labels, the one
\* selected as target is disabled
SelectSource(id) ==
    /\ mergeOpen
    /\ \E i \in 1..Len(labels) : labels[i].id = id
    /\ id # targetId
    /\ sourceId' = id
    /\ UNCHANGED <<dsVars, mergeOpen, targetId, merges, editorVars, rtVars, ingestVars>>

\* the onChange of the target select
SelectTarget(id) ==
    /\ mergeOpen
    /\ \E i \in 1..Len(labels) : labels[i].id = id
    /\ id # sourceId
    /\ targetId' = id
    /\ UNCHANGED <<dsVars, mergeOpen, sourceId, merges, editorVars, rtVars, ingestVars>>

\* the call of onMerge with swapped arguments
handleConfirmSwapped(source, target) ==
    IF source # "" /\ target # "" /\ source # target
    THEN Some([sourceId |-> target, targetId |-> source])
    ELSE Null

\* MergeModal.handleConfirm: the arguments of the call of onMerge, if any
handleConfirm(source, target) ==
    IF source # "" /\ target # "" /\ source # target
    THEN Some([sourceId |-> source, targetId |-> target])
    ELSE Null

\* the label list has a label with the id
hasLabel(ls, id) == \E i \in 1..Len(ls) : ls[i].id = id

\* the annotations with the source label rewritten to the target
relabel(anns, source, target) ==
    [j \in 1..Len(anns) |->
        IF anns[j].labelId = source THEN [anns[j] EXCEPT !.labelId = target]
        ELSE anns[j]]

\* merge(source, target) on the dataset: rejected with no effect unless the
\* ids are distinct ids of the label list
merge(source, target) ==
    IF source # target /\ hasLabel(labels, source) /\ hasLabel(labels, target)
    THEN /\ images' = [i \in 1..Len(images) |->
                          [images[i] EXCEPT
                              !.annotations = relabel(@, source, target)]]
         /\ labels' = SelectSeq(labels, LAMBDA l : l.id # source)
         /\ resetSelection(mergeOpen', labels')
    ELSE UNCHANGED <<images, labels, sourceId, targetId>>

\* the arguments of a call of onMerge and the label list at the call
MergeCall(args, ls) == [sourceId |-> args.sourceId, targetId |-> args.targetId, labels |-> ls]

\* the onClick of Confirm Merge, which is disabled unless two different
\* selections are made, and the merge of the caller; the caller leaves the
\* dialog open or closes it
confirmed(args) ==
    /\ args # Null
    /\ merges' = Append(merges, MergeCall(args[1], labels))
    /\ \E stays \in BOOLEAN : mergeOpen' = stays
    /\ merge(args[1].sourceId, args[1].targetId)

ConfirmMerge ==
    /\ Counted
    /\ mergeOpen
    /\ sourceId # "" /\ targetId # "" /\ sourceId # targetId
    /\ confirmed(handleConfirm(sourceId, targetId))
    /\ UNCHANGED <<selectedImageId, isProcessingAI, inFlight, imports>>
    /\ UNCHANGED <<editorVars, rtVars, ingestVars>>

\* the dialog covers the App while it is open
MergeNext ==
    \/ OpenMerge
    \/ CloseMerge
    \/ \E i \in 1..Len(labels) : SelectSource(labels[i].id)
    \/ \E i \in 1..Len(labels) : SelectTarget(labels[i].id)
    \/ ConfirmMerge
    \/ ~mergeOpen /\ \E z \in Archives : ImportDataset(z)
    \/ ~mergeOpen /\ AddLabel

SpecMerge == InitApp /\ [][MergeNext]_vars

(***************************************************************************)
(* Export: the label file of an image and data.yaml                        *)
(***************************************************************************)

\* n.toFixed(6): the text of a number rounded to six decimals (ties away
\* from zero), by its sign and its millionths; NaN and the infinities have
\* their names
toFixed(a) ==
    IF IsNaN(a) THEN [kind |-> "NaN", neg |-> FALSE, micro |-> 0]
    ELSE IF ~IsFinite(a) THEN [kind |-> "Infinity", neg |-> a.n < 0, micro |-> 0]
    ELSE [kind |-> "decimal", neg |-> a.n < 0,
          micro |-> (2 * Abs(a.n) * 1000000 + a.d) \div (2 * a.d)]

\* the text of a number in a template literal after toFixed(6)
Fixed(a) == [c |-> "fixed", o |-> Some(toFixed(a))]

\* the text of an integer in a template literal
Digits(i) == [c |-> "digits", o |-> Some(i)]

findIndexOneBased(ls, id) ==
    IF \E i \in 1..Len(ls) : ls[i].id = id
    THEN CHOOSE i \in 1..Len(ls) : ls[i].id = id /\ \A k \in 1..(i - 1) : ls[k].id # id
    ELSE -1

\* labels.findIndex(l => l.id === id)
findIndex(ls, id) ==
    IF \E i \in 1..Len(ls) : ls[i].id = id
    THEN (CHOOSE i \in 1..Len(ls) : ls[i].id = id /\ \A k \in 1..(i - 1) : ls[k].id # id) - 1
    ELSE -1

\* Array.prototype.join
RECURSIVE join(_, _)
join(segments, sep) ==
    IF segments = <<>> THEN <<>>
    ELSE IF Len(segments) = 1 THEN segments[1]
    ELSE segments[1] \o <<Ch(sep)>> \o join(Tail(segments), sep)

\* the line generateYoloAnnotation maps an annotation to
annotationLine(ann, classIndex) ==
    IF classIndex = -1 THEN <<>>
    ELSE <<Digits(classIndex), Ch(" "), Fixed(ann.x), Ch(" "), Fixed(ann.y), Ch(" "),
           Fixed(ann.w), Ch(" "), Fixed(ann.h)>>

generateYoloAnnotation(annotations, ls) ==
    join([j \in 1..Len(annotations) |->
             annotationLine(annotations[j], findIndex(ls, annotations[j].labelId))],
         "\n")

generateDataYaml(ls) ==
    Chars(<<"\n">>)
    \o Chars(<<"t", "r", "a", "i", "n", ":", " ", ".", "/", "t", "r", "a", "i", "n",
               "/", "i", "m", "a", "g", "e", "s", "\n">>)
    \o Chars(<<"v", "a", "l", ":", " ", ".", "/", "v", "a", "l",
               "/", "i", "m", "a", "g", "e", "s", "\n", "\n">>)
    \o Chars(<<"n", "c", ":", " ">>) \o <<Digits(Len(ls))>> \o Chars(<<"\n">>)
    \o Chars(<<"n", "a", "m", "e", "s", ":", "\n">>)
    \o join([i \in 1..Len(ls) |-> Chars(<<" ", " ", "-", " ">>) \o Chars(ls[i].name)], "\n")
    \o Chars(<<"\n">>)

\* txtContent of handleDownloadFullDataset and content of handleDownloadData
\* for an image in the present state
txtContent(img) == generateYoloAnnotation(img.annotations, labels)

----------------------------------------------------------------------------
(* Properties of the editor *)

Gestures == {"create", "move", "resize", "pan"}

\* a gesture is active when the state it owns is set
GestureActive(g) ==
    CASE g = "create" -> activeCreation # Null
      [] g = "move" -> draggingAnnotationId # NoId
      [] g = "resize" -> resizeHandle # "null"
      [] g = "pan" -> toolMode = "PAN" /\ isDragging /\ dragStart # Null

\* C1: in every reachable state at most one of the creation rectangle, the
\* dragged box id, the resize handle and the pan drag is set.
C1_AtMostOneGesture == Cardinality({g \in Gestures : GestureActive(g)}) <= 1

Idle ==
    /\ activeCreation = Null
    /\ draggingAnnotationId = NoId
    /\ resizeHandle = "null"
    /\ dragStart = Null
    /\ ~isDragging

\* C2: after every pointer-up and every pointer-leave the editor is Idle,
\* whatever the tool mode is when the event is handled.
C2_IdleAfterPointerUp == ev.type \in {"up", "leave"} => Idle

Creating == toolMode = "DRAW" /\ activeCreation # Null

IdsOf(annotations) == {annotations[i].id : i \in 1..Len(annotations)}

\* C3: a pointer-up (or leave) while Creating appends exactly one annotation,
\* with a fresh id, the current label and the svgToYolo geometry of the
\* rectangle, and selects it, if and only if the rectangle is wider and higher
\* than 5 pixels; otherwise the list is unchanged; either way the rectangle is
\* discarded.
C3_FinalizeIffLargerThanFive ==
    [][ ((MouseUp \/ MouseLeave) /\ Creating) =>
          LET r == activeCreation[1]
              g == svgToYolo(r.x, r.y, r.w, r.h, image.width, image.height)
              n == Len(image.annotations)
          IN  /\ activeCreation' = Null
              /\ IF Gt(r.w, I(5)) /\ Gt(r.h, I(5))
                 THEN /\ Len(image'.annotations) = n + 1
                      /\ SubSeq(image'.annotations, 1, n) = image.annotations
                      /\ image'.annotations[n + 1].id \notin IdsOf(image.annotations)
                      /\ image'.annotations[n + 1].labelId = currentLabelId
                      /\ [f \in {"x", "y", "w", "h"} |-> image'.annotations[n + 1][f]] = g
                      /\ selectedAnnId' = image'.annotations[n + 1].id
                 ELSE /\ image'.annotations = image.annotations
                      /\ selectedAnnId' = selectedAnnId ]_vars

\* a created annotation is appended to the imported one and selected
C3_Witness ==
    /\ ev = Event("up", "finalize")
    /\ Len(image.annotations) = 2
    /\ image.annotations[2].id = selectedAnnId
    /\ image.annotations[2].labelId = currentLabelId

\* the corner of a pixel rectangle opposite to a handle
OppositeCorner(r, handle) ==
    CASE handle = "tl" -> Pt(Add(r.x, r.w), Add(r.y, r.h))
      [] handle = "tr" -> Pt(r.x, Add(r.y, r.h))
      [] handle = "bl" -> Pt(Add(r.x, r.w), r.y)
      [] handle = "br" -> Pt(r.x, r.y)

\* the pixel rectangle of annotation id in an image
PixelRectOf(img, id) ==
    LET i == CHOOSE k \in 1..Len(img.annotations) : img.annotations[k].id = id
    IN  yoloToSvg(img.annotations[i], img.width, img.height)

Resizing == MoveBranch = "resize" /\ findAnn(selectedAnnId) # Null

\* C4: a resize move event leaves the pixel coordinates of the corner opposite
\* to the active handle where they were.
C4_ResizeKeepsOppositeCorner ==
    [][ ((\E c \in MoveCursors : MouseMove(c)) /\ Resizing) =>
          OppositeCorner(PixelRectOf(image', selectedAnnId), resizeHandle)
            = OppositeCorner(PixelRectOf(image, selectedAnnId), resizeHandle) ]_vars

\* a resize event has changed the geometry of the imported box
C4_Witness ==
    /\ ev = Event("move", "resize")
    /\ findAnn(selectedAnnId) # Null
    /\ selectedAnnId = ImportedBox.id
    /\ PixelRectOf(image, selectedAnnId) # yoloToSvg(ImportedBox, image.width, image.height)

\* C5: after a resize move event the resized box is at least 5 pixels wide
\* and 5 pixels high.
C5_ResizeMinimumSize ==
    (ev = Event("move", "resize") /\ findAnn(selectedAnnId) # Null) =>
        LET r == PixelRectOf(image, selectedAnnId)
        IN  Ge(r.w, I(5)) /\ Ge(r.h, I(5))

\* the cursor was dragged past the anchor and the box is held at 5 pixels
C5_Witness ==
    /\ ev = Event("move", "resize")
    /\ findAnn(selectedAnnId) # Null
    /\ PixelRectOf(image, selectedAnnId).w = I(5)
    /\ zoom # I(1)

Smaller(a, b) == IF Le(a, b) THEN a ELSE b

Distance(a, b) == IF Lt(a, b) THEN Sub(b, a) ELSE Sub(a, b)

\* C6: a move event while Creating sets the rectangle to the one spanned by
\* the anchor and the current point, and leaves the anchor alone.
C6_CreationRectNormalized ==
    [][ \A c \in MoveCursors :
          (MouseMove(c) /\ MoveBranch = "create") =>
              LET a == dragStart[1]
                  p == getMousePos(c)
              IN  /\ activeCreation' = Some([x |-> Smaller(a.x, p.x), y |-> Smaller(a.y, p.y),
                                             w |-> Distance(p.x, a.x), h |-> Distance(p.y, a.y)])
                  /\ dragStart' = dragStart ]_vars

\* a drag to the upper left of the anchor
C6_Witness ==
    /\ ev = Event("move", "create")
    /\ activeCreation # Null /\ dragStart # Null
    /\ Lt(activeCreation[1].x, dragStart[1].x)
    /\ Lt(activeCreation[1].y, dragStart[1].y)
    /\ Gt(activeCreation[1].w, I(0))

\* C7: while a box is being moved, its centre is where it was at pointer-down
\* plus the pointer's net image-space displacement divided by the image size,
\* the drag anchor is the pointer's last position, and its size is unchanged.
C7_MoveByNetDisplacement ==
    (grab.active /\ findAnn(grab.id) # Null) =>
        LET a == findAnn(grab.id)[1]
        IN  /\ a.x = Add(grab.x, Div(Sub(grab.last.x, grab.p.x), image.width))
            /\ a.y = Add(grab.y, Div(Sub(grab.last.y, grab.p.y), image.height))
            /\ a.w = grab.w /\ a.h = grab.h
            /\ dragStart = Some(grab.last)

\* a box dragged until its centre lies below the image
C7_Witness ==
    /\ grab.active /\ ev = Event("move", "move")
    /\ findAnn(grab.id) # Null
    /\ Gt(findAnn(grab.id)[1].y, I(1))
    /\ grab.last # grab.p

Panning == toolMode = "PAN" /\ isDragging /\ dragStart # Null

----------------------------------------------------------------------------
(* Properties of the coordinate conversions *)

\* C9: svgToYolo of yoloToSvg of a box returns the box, and yoloToSvg of
\* svgToYolo of a pixel rectangle returns the rectangle, for the same W, H > 0.
C9_RoundTrip ==
    /\ rtPc = "box-done" =>
          [f \in {"x", "y", "w", "h"} |-> rtOut[1][f]] = rtIn[1].g
    /\ rtPc = "rect-done" =>
          [f \in {"x", "y", "w", "h"} |-> rtOut[1][f]] = rtIn[1].g

\* a box of a third of a 640 x 480 image, off centre, has made the round trip
C9_Witness ==
    /\ rtPc = "box-done"
    /\ rtIn[1].size = Pt(I(640), I(480))
    /\ rtIn[1].g.w = Num(1, 3) /\ rtIn[1].g.x = Num(1, 3)
    /\ rtMid[1].x # rtIn[1].g.x
    /\ rtOut[1].x = Num(1, 3)

----------------------------------------------------------------------------
(* Properties of the ingestion loop *)

\* the elements of the response that would be emitted on their own
ValidItems ==
    {i \in 1..Len(results) :
        processItem(results[i], labelMapOf(alLabels), alMinConfidence, alImage[1]).kind = "emit"}

\* C10: a malformed or rejected detection never aborts the batch: the call
\* returns, with one annotation for every valid detection of the response.
C10_MalformedItemNeverAborts ==
    alPc # "loop" =>
        /\ alPc = "returned"
        /\ Len(newAnnotations) = Cardinality(ValidItems)

\* a property the response does not carry
Missing(j) == j.t \in {"undefined", "null"}

\* exactly four entries, each of numeric type and not NaN
FourNumbers(j) ==
    /\ j.t = "array"
    /\ Len(j.a) = 4
    /\ \A i \in 1..Len(j.a) : j.a[i].t = "number" /\ ~IsNaN(j.a[i].v)

Malformed(res) ==
    \/ res.t = "null"
    \/ Missing(res.label)
    \/ Missing(res.box_2d)
    \/ ~FourNumbers(res.box_2d)

\* C11: a detection whose label or box_2d is missing, or whose box_2d is not
\* four entries of numeric type that are not NaN, yields no annotation.
C11_MalformedDetectionSkipped ==
    \A i \in 1..Len(outcomes) : Malformed(results[i]) => outcomes[i].kind # "emit"

\* the detection gets as far as the confidence check: it is an object with a
\* label and a box, and its label resolves
PastLabelResolution(res) ==
    /\ res.t # "null"
    /\ Truthy(res.label) /\ Truthy(res.box_2d)
    /\ res.label.t = "string"
    /\ resolveLabel(labelMapOf(alLabels), trim(toLowerCase(res.label.s))) # Null

\* the confidence the response states, 1.0 when it states none
StatedConfidence(res) == IF Missing(res.confidence) THEN I(1) ELSE res.confidence.v

\* C12: a detection that passed label resolution is filtered if and only if
\* its confidence is strictly below minConfidence; a missing confidence counts
\* as 1.0.
C12_FilteredIffBelowThreshold ==
    \A i \in 1..Len(outcomes) :
        PastLabelResolution(results[i]) =>
            (outcomes[i].kind = "filtered"
                <=> Lt(StatedConfidence(results[i]), alMinConfidence))

\* a detection exactly at the threshold and one without a confidence were
\* both emitted
C12_Witness ==
    /\ \E i \in 1..Len(outcomes) :
          /\ ~Missing(results[i].confidence)
          /\ results[i].confidence.v = alMinConfidence
          /\ outcomes[i].kind = "emit"
    /\ \E i \in 1..Len(outcomes) :
          /\ PastLabelResolution(results[i])
          /\ Missing(results[i].confidence)
          /\ outcomes[i].kind = "emit" /\ outcomes[i].confidence = I(1)

\* the default the AutoLabelConfig interface documents for minConfidence
DocumentedMinConfidence == Num(3, 10)

\* C13: when the caller sets no minConfidence the threshold is 0.3: every
\* detection that is valid and has a confidence of at least 0.3 is emitted.
C13_DefaultThresholdIsDocumented ==
    alConfig.minConfidence = Null =>
        \A i \in 1..Len(outcomes) :
            processItem(results[i], labelMapOf(alLabels),
                        DocumentedMinConfidence, alImage[1]).kind = "emit"
                => outcomes[i].kind = "emit"

\* the detection gets as far as the coordinate normalisation with a box of
\* four numbers
ReachesNormalisation(res) ==
    /\ PastLabelResolution(res)
    /\ ~Lt(StatedConfidence(res), alMinConfidence)
    /\ FourNumbers(res.box_2d)

RawBox(res) == [k \in 1..4 |-> res.box_2d.a[k].v]

\* what becomes of a detection once its box is known in normalized form
Normalized(res, box) ==
    finishBox(resolveLabel(labelMapOf(alLabels), trim(toLowerCase(res.label.s)))[1].id,
              StatedConfidence(res), uninvert(box))

\* C14: a box with no value above 1.0 is used as it is; a box with a value
\* above 1.0 is divided by the image height (y) and width (x) when both are
\* positive, and the detection is rejected when one of them is 0.
C14_PixelBoxesAreNormalized ==
    \A i \in 1..Len(outcomes) :
        ReachesNormalisation(results[i]) =>
            LET b == RawBox(results[i])
                W == alImage[1].width
                H == alImage[1].height
            IN  IF \A k \in 1..4 : Le(b[k], I(1))
                THEN outcomes[i] = Normalized(results[i], b)
                ELSE IF Gt(W, I(0)) /\ Gt(H, I(0))
                THEN outcomes[i] =
                        Normalized(results[i], <<Div(b[1], H), Div(b[2], W), Div(b[3], H), Div(b[4], W)>>)
                ELSE outcomes[i].kind = "invalid"

\* the box [10, 20, 400, 300] on a 640 x 480 image was emitted, normalized
C14_Witness ==
    \E i \in 1..Len(outcomes) :
        /\ ReachesNormalisation(results[i])
        /\ RawBox(results[i]) = <<I(10), I(20), I(400), I(300)>>
        /\ alImage[1].width = I(640) /\ alImage[1].height = I(480)
        /\ outcomes[i].kind = "emit"
        /\ outcomes[i].x = Num(1, 4) /\ outcomes[i].y = Num(41, 96)
        /\ outcomes[i].w = Num(7, 16) /\ outcomes[i].h = Num(13, 16)

\* the box that reaches clampBBox: normalized, swapped where inverted
ClampInput(res) == uninvert(normalizeBox(RawBox(res), alImage[1])[1])

ReachesClamp(res) ==
    /\ ReachesNormalisation(res)
    /\ normalizeBox(RawBox(res), alImage[1]) # Null

InUnit(v) == Le(I(0), v) /\ Le(v, I(1))

Midpoint(a, b) == Div(Add(a, b), I(2))

\* the axis from lo to hi of a clamped box is at least 0.01 long, and if the
\* values given (from, to) were closer than that after clamping, it is still
\* centred where they were
AxisKept(lo, hi, from, to) ==
    /\ InUnit(lo) /\ InUnit(hi)
    /\ Ge(Sub(hi, lo), Num(1, 100))
    /\ Lt(Sub(clamp01(to), clamp01(from)), Num(1, 100))
          => Midpoint(lo, hi) = Midpoint(clamp01(from), clamp01(to))

\* C15: the box that leaves the clamp and minimum-size step lies in [0,1], is
\* at least 0.01 long on each axis, and an expanded axis keeps its midpoint.
C15_ClampKeepsMinimumSize ==
    \A i \in 1..Len(outcomes) :
        ReachesClamp(results[i]) =>
            LET b == ClampInput(results[i])
                o == outcomes[i]
            IN  /\ o.kind = "emit"
                /\ AxisKept(Sub(o.y, Div(o.h, I(2))), Add(o.y, Div(o.h, I(2))), b[1], b[3])
                /\ AxisKept(Sub(o.x, Div(o.w, I(2))), Add(o.x, Div(o.w, I(2))), b[2], b[4])

\* box_2d as the loop reads it: every entry passed through Number()
CoercedBox(res) == [k \in 1..Len(res.box_2d.a) |-> ToNumber(res.box_2d.a[k])]

\* the clamped box [ymin, xmin, ymax, xmax] of an emitted detection
ClampedBox(res) == clampBBox(uninvert(normalizeBox(CoercedBox(res), alImage[1])[1]))

\* the outcomes that pushed an annotation, in order
Emitted == SelectSeq(outcomes, LAMBDA o : o.kind = "emit")

\* C16: every annotation of autoLabelImage has a positive width and height,
\* lies inside the image in normalized space, and is the centre form of the
\* clamped box of its detection.
C16_AnnotationsInsideImage ==
    /\ Len(newAnnotations) = Len(Emitted)
    /\ \A k \in 1..Len(newAnnotations) :
          LET a == newAnnotations[k]
          IN  /\ [f \in {"x", "y", "w", "h"} |-> a[f]] = [f \in {"x", "y", "w", "h"} |-> Emitted[k][f]]
              /\ Gt(a.w, I(0)) /\ Gt(a.h, I(0))
              /\ Le(I(0), Sub(a.x, Div(a.w, I(2)))) /\ Le(Add(a.x, Div(a.w, I(2))), I(1))
              /\ Le(I(0), Sub(a.y, Div(a.h, I(2)))) /\ Le(Add(a.y, Div(a.h, I(2))), I(1))
    /\ \A i \in 1..Len(outcomes) :
          outcomes[i].kind = "emit" =>
              LET c == ClampedBox(results[i])
                  o == outcomes[i]
              IN  /\ o.w = Sub(c[4], c[2])
                  /\ o.h = Sub(c[3], c[1])
                  /\ o.x = Add(c[2], Div(o.w, I(2)))
                  /\ o.y = Add(c[1], Div(o.h, I(2)))

\* two annotations were returned, one of them reaching the lower image edge
C16_Witness ==
    /\ alPc = "returned"
    /\ Len(newAnnotations) = 2
    /\ \E k \in 1..2 :
          Add(newAnnotations[k].y, Div(newAnnotations[k].h, I(2))) = I(1)
    /\ \E k \in 1..2 :
          Lt(Add(newAnnotations[k].y, Div(newAnnotations[k].h, I(2))), I(1))

\* the detection gets as far as label resolution
ReachesLabelResolution(res) ==
    /\ res.t # "null"
    /\ Truthy(res.label) /\ Truthy(res.box_2d)
    /\ res.label.t = "string"

NormalizedName(name) == trim(toLowerCase(name))

\* C17: a detected label equal to a known name (lower-cased, trimmed)
\* resolves to a label of that name, before any substring match; otherwise to
\* the first label, in label-map order, whose normalized name contains it or
\* is contained in it; otherwise the detection is skipped as unknown.  An
\* emitted labelId is the id of a supplied label.
C17_LabelResolution ==
    \A i \in 1..Len(outcomes) :
        ReachesLabelResolution(results[i]) =>
            LET d == NormalizedName(results[i].label.s)
                o == outcomes[i]
                lm == labelMapOf(alLabels)
                exact == {k \in 1..Len(alLabels) : NormalizedName(alLabels[k].name) = d}
                near == {k \in 1..Len(lm) : includes(d, lm[k].key) \/ includes(lm[k].key, d)}
            IN  /\ IF exact # {}
                   THEN /\ o.kind # "unknown"
                        /\ o.kind = "emit" => o.labelId \in {alLabels[k].id : k \in exact}
                   ELSE IF near # {}
                   THEN /\ o.kind # "unknown"
                        /\ o.kind = "emit" =>
                              o.labelId = lm[CHOOSE k \in near : \A j \in near : k <= j].value.id
                   ELSE o.kind = "unknown"
                /\ o.kind = "emit" => o.labelId \in {alLabels[k].id : k \in 1..Len(alLabels)}

\* "car" went to the label named car although car_red comes first in the
\* map, and "ca" went to the first entry that contains it, the key cat,
\* whose value is the last label of that name
C17_Witness ==
    /\ \E i \in 1..Len(outcomes) :
          /\ results[i].t # "null" /\ results[i].label.s = <<"c", "a", "r">>
          /\ outcomes[i].kind = "emit" /\ outcomes[i].labelId = "2"
    /\ \E i \in 1..Len(outcomes) :
          /\ results[i].t # "null" /\ results[i].label.s = <<"c", "a">>
          /\ outcomes[i].kind = "emit" /\ outcomes[i].labelId = "3"

----------------------------------------------------------------------------
(* Properties of the detector call *)

\* the attempts of retryAsync that made a request so far
AttemptsMade == {requests[k].attempt : k \in 1..Len(requests)}

\* the call is over: a response arrived or the promise was rejected
CallOver == alPc \in {"responded", "rejected"}

\* attempts run one after another, each further one after a backoff sleep
Sequential ==
    /\ \A k \in 1..(Len(requests) - 1) : requests[k].attempt <= requests[k + 1].attempt
    /\ (CallOver /\ requests # <<>>) => Len(sleeps) = Cardinality(AttemptsMade) - 1

\* the sleeps are base, 2*base, 4*base, ...
DoublingBackoff ==
    /\ sleeps # <<>> => sleeps[1] = BaseDelay
    /\ \A k \in 1..(Len(sleeps) - 1) : sleeps[k + 1] = 2 * sleeps[k]

\* when every attempt failed, the rejection carries the error of the last request
LastErrorSurfaced ==
    (alPc = "rejected" /\ requests # <<>>) =>
        /\ alError # Null
        /\ alError[1].cause = Error(requests[Len(requests)].result, Len(requests))

\* C18 (as stated): the detector call is attempted at most maxRetries times in
\* total per call, attempts run one after another, the backoff sleep starts at
\* the base delay and doubles each time, and when every attempt fails the error
\* surfaced is the error of the last attempt
C18_AtMostMaxRetriesAttempts ==
    /\ Cardinality(AttemptsMade) <= maxRetriesOf(alConfig)
    /\ Sequential
    /\ DoublingBackoff
    /\ LastErrorSurfaced

\* C18 (amended): the detector call is attempted at most maxRetries + 1 times
\* in total per call (the first attempt and maxRetries retries, 4 by default),
\* attempts run one after another, the backoff sleep starts at the base delay
\* and doubles each time, and when every attempt fails the error surfaced is
\* the error of the last attempt
C18_AtMostMaxRetriesPlusOneAttempts ==
    /\ Cardinality(AttemptsMade) <= maxRetriesOf(alConfig) + 1
    /\ Sequential
    /\ DoublingBackoff
    /\ LastErrorSurfaced

\* the default policy exhausted: four failed attempts, three sleeps, and the
\* rejection carries the error of the fourth attempt
C18_Witness ==
    /\ alConfig.maxRetries = Null
    /\ alPc = "rejected"
    /\ Cardinality(AttemptsMade) = 4
    /\ sleeps = <<BaseDelay, 2 * BaseDelay, 4 * BaseDelay>>
    /\ requests[Len(requests)].result = "quota"
    /\ \E k \in 1..(Len(requests) - 1) : requests[k].result = "network"
    /\ alError = Some([class |-> "QuotaError", cause |-> Error("quota", Len(requests))])

\* the requests to the configured model that ended with a not-found error
NotFoundRequests ==
    {k \in 1..Len(requests) :
        requests[k].model = modelOf(alConfig) /\ requests[k].result = "notfound"}

\* C19: if the configured model, whatever its identifier, fails with a
\* not-found error, the call falls back to the alternate model, and every
\* request of the call after that failure goes to the alternate model: the
\* configured model is not requested again
C19_FallbackForRemainingAttempts ==
    \A k \in NotFoundRequests :
        /\ \A j \in (k + 1)..Len(requests) : requests[j].model = fallbackModel
        /\ CallOver => \E j \in (k + 1)..Len(requests) : requests[j].model = fallbackModel

\* C20: an authentication error or a quota error returned by the detector is
\* terminal: no retry is scheduled and no request follows it, and the call is
\* rejected with that error; only a request that failed with a network error
\* is followed by another attempt
C20_AuthAndQuotaAreTerminal ==
    /\ \A k \in 1..Len(requests) :
          requests[k].result \in {"auth", "quota"} =>
              /\ k = Len(requests)
              /\ alPc # "sleep"
              /\ alPc = "rejected" =>
                    alError = Some(surfaced(Error(requests[k].result, k)))
    /\ \A k \in 1..(Len(requests) - 1) :
          requests[k + 1].attempt > requests[k].attempt => requests[k].result = "network"

----------------------------------------------------------------------------
(* Properties of the response parsing *)

\* the text holds a fence marker
HasFence(s) == \E i \in 1..(Len(s) - 2) : \A k \in i..(i + 2) : s[k].c = "backtick"

\* the JSON values a text carries, in order
ValuesOf(s) == SelectSeq(s, LAMBDA tok : tok.c = "value")

\* inner is the part of outer from its first [ to its last ]
BracketedPart(inner, outer) ==
    \E i \in 1..Len(outer) : \E j \in i..Len(outer) :
        /\ inner = SubSeq(outer, i, j)
        /\ outer[i].c = "[" /\ outer[j].c = "]"
        /\ \A k \in 1..(i - 1) : outer[k].c # "["
        /\ \A k \in (j + 1)..Len(outer) : outer[k].c # "]"

HasBracketedPart(s) ==
    \E i \in 1..Len(s) : \E j \in (i + 1)..Len(s) : s[i].c = "[" /\ s[j].c = "]"

ParseError == Some(surfaced(Error("parse", 0)))

\* C21: the text given to the first parse has its fence markers stripped and
\* its values kept; a failed first parse is followed by exactly one more
\* parse, of the bracketed part of the stripped text, when there is one; when
\* the last parse failed the call is rejected with the parse error and has
\* neither results nor annotations, and a call whose last parse succeeded is
\* not rejected with the parse error
C21_ParseRetriedOnceThenTerminal ==
    (alPc # "responded" /\ response # Null /\ response[1] # <<>>) =>
        /\ Len(parsed) \in {1, 2}
        /\ ~HasFence(parsed[1].input)
        /\ ValuesOf(parsed[1].input) = ValuesOf(response[1])
        /\ Len(parsed) = 2 <=> (~parsed[1].ok /\ HasBracketedPart(parsed[1].input))
        /\ Len(parsed) = 2 => BracketedPart(parsed[2].input, parsed[1].input)
        /\ ~parsed[Len(parsed)].ok =>
              /\ alPc = "rejected" /\ alError = ParseError
              /\ results = <<>> /\ newAnnotations = <<>> /\ outcomes = <<>>
        /\ parsed[Len(parsed)].ok => alError # ParseError

\* a fenced answer after a line of prose: the first parse fails, the second
\* parses the bracketed part, and the detection is returned as an annotation
C21_Witness ==
    /\ response # Null /\ response[1] # <<>>
    /\ response[1][1].c = "H" /\ HasFence(response[1])
    /\ Len(parsed) = 2 /\ ~parsed[1].ok /\ parsed[2].ok
    /\ alPc = "returned"
    /\ Len(newAnnotations) = 1

----------------------------------------------------------------------------
(* Properties of the App over the dataset *)

\* C22: at most one handleAutoLabel call is suspended at its await at any
\* time, and while one is the busy flag isProcessingAI is set
C22_AtMostOneInFlight ==
    /\ Len(inFlight) <= 1
    /\ inFlight # <<>> => isProcessingAI

\* a request is in flight while another image has become the active one
C22_Witness ==
    /\ Len(inFlight) = 1
    /\ isProcessingAI
    /\ selectedImageId # inFlight[1].selectedImageId
    /\ autoLabelDisabled(currentImage, isProcessingAI)

\* C23: when a handleAutoLabel call resumes and the image it was started for
\* is no longer the active image, the step changes no image's annotations
C23_WriteBackRevalidated ==
    [][ \A k \in DOMAIN inFlight :
           (inFlight' = Without(inFlight, k)
               /\ selectedImageId # inFlight[k].selectedImageId)
           => images' = images ]_vars

(***************************************************************************)
(* Properties of the label merge                                           *)
(***************************************************************************)

\* the places of the annotations of the dataset
AnnotationPlaces(imgs) ==
    UNION { { <<i, j>> : j \in 1..Len(imgs[i].annotations) } : i \in 1..Len(imgs) }

\* the number of annotations of the dataset with the label id
countOf(imgs, id) ==
    Cardinality({ p \in AnnotationPlaces(imgs) : imgs[p[1]].annotations[p[2]].labelId = id })

\* a step in which Confirm Merge is pressed
Confirms == Len(merges') = Len(merges) + 1

\* C24: when the merge is confirmed for a source and a target that are
\* different ids of the label list, every annotation of every image with
\* the source label gets the target label and no other annotation changes,
\* the source label leaves the label list and the others stay, the number
\* of annotations stays, and the target then counts what source and target
\* counted before.
C24_MergeRewritesAndRemoves ==
    [][ (Confirms /\ sourceId # targetId
            /\ hasLabel(labels, sourceId) /\ hasLabel(labels, targetId))
        => /\ Len(images') = Len(images)
           /\ \A i \in 1..Len(images) :
                 /\ Len(images'[i].annotations) = Len(images[i].annotations)
                 /\ \A j \in 1..Len(images[i].annotations) :
                       images'[i].annotations[j] =
                          [images[i].annotations[j] EXCEPT
                              !.labelId = IF @ = sourceId THEN targetId ELSE @]
           /\ ~hasLabel(labels', sourceId)
           /\ { labels'[i] : i \in 1..Len(labels') }
                 = { l \in { labels[i] : i \in 1..Len(labels) } : l.id # sourceId }
           /\ Cardinality(AnnotationPlaces(images')) = Cardinality(AnnotationPlaces(images))
           /\ countOf(images', targetId)
                 = countOf(images, sourceId) + countOf(images, targetId) ]_vars

\* a merge of a label with annotations into another with annotations is done
C24_Witness ==
    \E k \in 1..Len(merges) :
        /\ hasLabel(merges[k].labels, merges[k].sourceId)
        /\ hasLabel(merges[k].labels, merges[k].targetId)
        /\ ~hasLabel(labels, merges[k].sourceId)
        /\ countOf(images, merges[k].targetId) >= 2
        /\ Len(labels) = 2

\* C25: onMerge is only ever called with two different ids that both
\* belong to the label list at the call.
C25_OnMergeOnlyWithExistingDistinct ==
    \A k \in 1..Len(merges) :
        /\ merges[k].sourceId # merges[k].targetId
        /\ hasLabel(merges[k].labels, merges[k].sourceId)
        /\ hasLabel(merges[k].labels, merges[k].targetId)

(***************************************************************************)
(* Properties of the export                                                *)
(***************************************************************************)

\* the pieces of a text between the occurrences of a separator character
RECURSIVE split(_, _)
split(text, sep) ==
    IF \A i \in 1..Len(text) : text[i] # Ch(sep) THEN <<text>>
    ELSE LET k == CHOOSE i \in 1..Len(text) :
                     text[i] = Ch(sep) /\ \A m \in 1..(i - 1) : text[m] # Ch(sep)
         IN  <<SubSeq(text, 1, k - 1)>> \o split(SubSeq(text, k + 1, Len(text)), sep)

\* the lines of a label file: an empty file has none
linesOf(text) == IF text = <<>> THEN <<>> ELSE split(text, "\n")

StartsWith(text, prefix) ==
    Len(text) >= Len(prefix) /\ SubSeq(text, 1, Len(prefix)) = prefix

\* the lines of data.yaml after the line names:
AfterNames(lines) ==
    LET k == CHOOSE i \in 1..Len(lines) : lines[i] = Chars(<<"n", "a", "m", "e", "s", ":">>)
    IN  SubSeq(lines, k + 1, Len(lines))

\* the entries of the names list of data.yaml, in order
namesOf(yaml) ==
    LET entries == SelectSeq(AfterNames(split(yaml, "\n")),
                             LAMBDA l : StartsWith(l, Chars(<<" ", " ", "-", " ">>)))
    IN  [i \in 1..Len(entries) |-> SubSeq(entries[i], 5, Len(entries[i]))]

\* the number after nc: in data.yaml
ncOf(yaml) ==
    LET lines == split(yaml, "\n")
        k == CHOOSE i \in 1..Len(lines) : StartsWith(lines[i], Chars(<<"n", "c", ":", " ">>))
    IN  lines[k][5].o[1]

\* the class index written on a line of a label file
classIndexOf(line) == split(line, " ")[1][1].o[1]

\* C26: for every annotation whose label is in the label list, the class
\* index on its line of the label file is the zero-based position of the
\* first label of the list with that id, the entry of the names list of
\* data.yaml at that position is the name of that label, and nc is the
\* number of labels.
C26_ClassIndexIsPosition ==
    /\ ncOf(generateDataYaml(labels)) = Len(labels)
    /\ Len(namesOf(generateDataYaml(labels))) = Len(labels)
    /\ \A i \in 1..Len(images) : \A j \in 1..Len(images[i].annotations) :
          (\E p \in 1..Len(labels) : labels[p].id = images[i].annotations[j].labelId)
          => LET classIndex == classIndexOf(split(txtContent(images[i]), "\n")[j])
             IN  /\ classIndex \in 0..(Len(labels) - 1)
                 /\ labels[classIndex + 1].id = images[i].annotations[j].labelId
                 /\ \A p \in 1..classIndex :
                       labels[p].id # images[i].annotations[j].labelId
                 /\ namesOf(generateDataYaml(labels))[classIndex + 1]
                       = Chars(labels[classIndex + 1].name)

\* an annotation is exported whose label has the id 2 and the position 1
C26_Witness ==
    /\ Len(labels) = 2 /\ labels[2].id = "2"
    /\ \E i \in 1..Len(images) : \E j \in 1..Len(images[i].annotations) :
          /\ images[i].annotations[j].labelId = "2"
          /\ classIndexOf(split(txtContent(images[i]), "\n")[j]) = 1

\* C27: the label file of every image has exactly one line for each
\* annotation, in the order of the annotations, made of the five fields
\* class index, x, y, w and h.
C27_OneFullLinePerAnnotation ==
    \A i \in 1..Len(images) :
        LET lines == linesOf(txtContent(images[i]))
        IN  /\ Len(lines) = Len(images[i].annotations)
            /\ \A j \in 1..Len(lines) :
                  LET fields == split(lines[j], " ")
                      ann == images[i].annotations[j]
                  IN  /\ Len(fields) = 5
                      /\ Len(fields[1]) = 1 /\ fields[1][1].c = "digits"
                      /\ fields[2] = <<Fixed(ann.x)>> /\ fields[3] = <<Fixed(ann.y)>>
                      /\ fields[4] = <<Fixed(ann.w)>> /\ fields[5] = <<Fixed(ann.h)>>

\* the text of a number within [0, 1]
WithinUnit(field) ==
    /\ Len(field) = 1 /\ field[1].c = "fixed"
    /\ field[1].o[1].kind = "decimal"
    /\ field[1].o[1].micro <= 1000000
    /\ field[1].o[1].neg => field[1].o[1].micro = 0

\* C28: on every line of the label file of every image, x, y, w and h are
\* within [0, 1].
C28_ExportedBoxesWithinUnit ==
    \A i \in 1..Len(images) :
        \A j \in 1..Len(linesOf(txtContent(images[i]))) :
            LET fields == split(linesOf(txtContent(images[i]))[j], " ")
            IN  Len(fields) = 5 => \A f \in 2..5 : WithinUnit(fields[f])

(***************************************************************************)
(* Properties of the dataset import                                        *)
(***************************************************************************)

\* a step in which a dataset with an image is imported
Imports == Len(imports') = Len(imports) + 1 /\ imports'[Len(imports')].imageId # NoId

\* the line has at least five fields and a class index within the label list
Kept(line, activeLabels) ==
    /\ Len(line) >= 5
    /\ line[1].int # Null
    /\ line[1].int[1] \in 0..(Len(activeLabels) - 1)

\* C29: the annotations an imported image gets are, in order, those of the
\* lines of its label file with at least five fields and a class index
\* within the resolved label list, each with the id of the label at the
\* position of its class index and the geometry of its line; the other
\* lines are dropped one by one.
C29_ImportDropsLineByLine ==
    [][ Imports =>
        LET done == imports'[Len(imports')]
            kept == SelectSeq(done.archive.image[1],
                              LAMBDA line : Kept(line, done.activeLabels))
            anns == images'[Len(images')].annotations
        IN  /\ images'[Len(images')].id = done.imageId
            /\ Len(anns) = Len(kept)
            /\ \A j \in 1..Len(kept) :
                  /\ anns[j].labelId = done.activeLabels[kept[j][1].int[1] + 1].id
                  /\ anns[j].x = kept[j][2].num /\ anns[j].y = kept[j][3].num
                  /\ anns[j].w = kept[j][4].num /\ anns[j].h = kept[j][5].num ]_vars

\* a label file with a short line, a blank line and a class index out of
\* range has been imported, and its other lines gave annotations
C29_Witness ==
    \E k \in 1..Len(imports) : \E i \in 1..Len(images) :
        /\ imports[k].imageId = images[i].id
        /\ imports[k].archive.image # Null
        /\ \E m \in 1..Len(imports[k].archive.image[1]) :
              Len(imports[k].archive.image[1][m]) \in 1..4
        /\ \E m \in 1..Len(imports[k].archive.image[1]) :
              /\ Len(imports[k].archive.image[1][m]) >= 5
              /\ ~Kept(imports[k].archive.image[1][m], imports[k].activeLabels)
        /\ Len(images[i].annotations) >= 2

\* C30: the status of every image is unlabeled when it has no annotation
\* and in-progress when it has one: no operation makes it done.
C30_StatusDerived ==
    \A i \in 1..Len(images) :
        images[i].status =
            IF images[i].annotations = <<>> THEN "unlabeled" ELSE "in-progress"

(***************************************************************************)
(* Properties of the dataset                                               *)
(***************************************************************************)

\* C31: the labelId of every annotation of every image is the id of a
\* label of the label list.
C31_LabelIdsExist ==
    \A i \in 1..Len(images) : \A j \in 1..Len(images[i].annotations) :
        \E p \in 1..Len(labels) : labels[p].id = images[i].annotations[j].labelId

\* C32: every annotation of every image has a width and a height above 0.
C32_PositiveExtent ==
    \A i \in 1..Len(images) : \A j \in 1..Len(images[i].annotations) :
        /\ Lt(I(0), images[i].annotations[j].w)
        /\ Lt(I(0), images[i].annotations[j].h)

\* the centre-form box of the pixel corners [10, 20, 400, 300] divided by
\* a width W and a height H
PixelBoxAs(W, H) ==
    [x |-> Div(Add(Div(I(20), W), Div(I(300), W)), I(2)),
     y |-> Div(Add(Div(I(10), H), Div(I(400), H)), I(2)),
     w |-> Sub(Div(I(300), W), Div(I(20), W)),
     h |-> Sub(Div(I(400), H), Div(I(10), H))]

\* the sizes an image record has before its decode
UndecodedSizes == { [width |-> I(0), height |-> I(0)], [width |-> I(800), height |-> I(600)] }

GeometryOf(a) == [x |-> a.x, y |-> a.y, w |-> a.w, h |-> a.h]

\* C33: no annotation of the dataset is the pixel detection divided by the
\* size an image record has before its decode: a pixel detection ingested
\* with such a size is rejected.
C33_NoBoxFromUndecodedSize ==
    \A i \in 1..Len(images) : \A j \in 1..Len(images[i].annotations) :
        \A d \in UndecodedSizes :
            GeometryOf(images[i].annotations[j]) # PixelBoxAs(d.width, d.height)

(***************************************************************************)
(* Properties of the editor on an image that is not decoded                *)
(***************************************************************************)

\* C34: a pointer event changes the annotations (by a conversion of a
\* created, resized or moved box) only while the width and the height of
\* the image are above 0.
C34_NoConversionAtZeroSize ==
    [][ (ev'.type \in {"move", "up", "leave"} /\ image'.annotations # image.annotations)
        => (Gt(image.width, I(0)) /\ Gt(image.height, I(0))) ]_vars

(***************************************************************************)
(* Properties of the creation of annotations by the editor                 *)
(***************************************************************************)

\* C35: an annotation is added only by the pointer-up (or pointer-leave)
\* that ends a gesture begun by a pointer-down in Draw mode on the empty
\* canvas.
C35_CreatedOnlyByDrawGesture ==
    [][ Len(image'.annotations) > Len(image.annotations)
        => /\ ev'.type \in {"up", "leave"}
           /\ pointer = "down"
           /\ began = [mode |-> "DRAW", target |-> "canvas"] ]_vars

(***************************************************************************)
(* Properties of the application of auto-label results                     *)
(***************************************************************************)

\* a step in which the auto-label call k settles
Settles(k) == k \in DOMAIN inFlight /\ inFlight' = Without(inFlight, k)

\* C36: when an auto-label call settles, the annotation list of every image
\* afterwards begins with its annotation list of just before: what was
\* drawn, moved or deleted while the call was in flight is kept and the new
\* annotations follow.
C36_NoEditLost ==
    [][ \A k \in DOMAIN inFlight :
           Settles(k) =>
              \A i \in 1..Len(images) :
                 /\ Len(images'[i].annotations) >= Len(images[i].annotations)
                 /\ SubSeq(images'[i].annotations, 1, Len(images[i].annotations))
                       = images[i].annotations ]_vars

(***************************************************************************)
(* One auto-label request from the click to the end of handleAutoLabel:    *)
(* the call of autoLabelImage runs between the two halves of the handler   *)
(***************************************************************************)

\* App.handleAutoLabel up to its await, and autoLabelImage entered with the
\* image and the labels of that render and { model: aiModel }
BeginAutoLabel ==
    /\ started
    /\ alImage' = Some([width |-> currentImage[1].width, height |-> currentImage[1].height])
    /\ alLabels' = labels
    /\ alConfig' = [NoConfig EXCEPT !.model = Some(Gemini25Flash)]
    /\ alMinConfidence' = DefaultMinConfidence
    /\ results' = <<>>
    /\ idx' = 0
    /\ newAnnotations' = <<>>
    /\ filteredByConfidence' = 0
    /\ invalidBoxes' = 0
    /\ unknownLabels' = 0
    /\ alPc' = "start"
    /\ alNextId' = nextId
    /\ outcomes' = <<>>
    /\ alError' = Null
    /\ response' = Null
    /\ parsed' = <<>>
    /\ attempt' = 0
    /\ retryDelay' = BaseDelay
    /\ requests' = <<>>
    /\ sleeps' = <<>>
    /\ lastError' = Null

\* what the await of handleAutoLabel yields: the annotations returned, with
\* fresh ids, or the rejection
awaited ==
    IF alPc = "returned"
    THEN Some([j \in 1..Len(newAnnotations) |->
                  [id |-> nextId + j - 1, labelId |-> newAnnotations[j].labelId,
                   x |-> newAnnotations[j].x, y |-> newAnnotations[j].y,
                   w |-> newAnnotations[j].w, h |-> newAnnotations[j].h]])
    ELSE Null

\* App.handleAutoLabel from its await on, once autoLabelImage has returned or
\* thrown
EndAutoLabel ==
    /\ alPc \in {"returned", "rejected"}
    /\ settled(1, awaited)
    /\ alPc' = "off"
    /\ UNCHANGED <<alImage, alLabels, alMinConfidence, results, idx, newAnnotations,
                   filteredByConfidence, invalidBoxes, unknownLabels, alNextId,
                   alConfig, outcomes, alError, callVars, parseVars>>

\* the steps of the call between the two halves of the handler
CallStep ==
    \/ Prepare
    \/ Attempt
    \/ Backoff
    \/ Exhausted
    \/ ParseResponse
    \/ ProcessDetection
    \/ ReturnAnnotations

RequestNext == BeginAutoLabel \/ CallStep \/ EndAutoLabel

\* one picture uploaded and active, with no box or with one box drawn, and one
\* operation left
UploadedImages ==
    { <<[id |-> 1, width |-> I(800), height |-> I(600), annotations |-> <<>>,
         status |-> "unlabeled"]>>,
      <<[id |-> 1, width |-> I(800), height |-> I(600),
         annotations |-> <<[id |-> 2, labelId |-> "0", x |-> Num(1, 2), y |-> Num(1, 2),
                            w |-> Num(1, 4), h |-> Num(1, 4)]>>,
         status |-> "in-progress"]>> }

InitRequest ==
    /\ images \in UploadedImages
    /\ labels = DEFAULT_LABELS /\ selectedImageId = 1
    /\ isProcessingAI = FALSE /\ inFlight = <<>> /\ edits = MaxEdits - 1 /\ imports = <<>>
    /\ mergeOpen = FALSE /\ sourceId = "" /\ targetId = "" /\ merges = <<>>
    /\ isDragging = FALSE /\ dragStart = Null /\ activeCreation = Null
    /\ draggingAnnotationId = NoId /\ resizeHandle = "null"
    /\ toolMode = "SELECT" /\ zoom = I(1) /\ pan = Origin
    /\ selectedAnnId = (IF images[1].annotations = <<>> THEN NoId ELSE 2)
    /\ currentLabelId = "0"
    /\ image = [width |-> I(0), height |-> I(0), annotations |-> <<>>, status |-> "unlabeled"]
    /\ pointer = "up" /\ nextId = 2 + Len(images[1].annotations)
    /\ ev = Event("init", "none")
    /\ gestures = 0 /\ modeChanges = 0 /\ grab = NoGrab /\ began = NoGesture
    /\ RtIdle /\ IngestIdle

SpecRequest == InitRequest /\ [][RequestNext]_vars

\* the call is between its start and its return or throw: a step of CallStep
\* is enabled exactly then
CallRunning == alPc \in {"start", "call", "sleep", "responded", "loop"}

\* every detector call returns or throws, every timer of the backoff fires,
\* and the loops of the call go on: WF_vars(CallStep), with CallRunning for
\* ENABLED <<CallStep>>_vars
CallProgress == []<>(~CallRunning) \/ []<><<CallStep>>_vars

\* a settled promise resumes the handler awaiting it
SpecRequestFair == SpecRequest /\ CallProgress /\ WF_vars(EndAutoLabel)

\* C37: every started auto-label request eventually ends with the busy flag
\* cleared, whether the call returns annotations, returns none or throws
\* (each detector call returning or throwing); and the end of a request whose
\* call threw leaves the annotation list of every image as it was
C37_RequestEndsNotBusy ==
    /\ isProcessingAI ~> (~isProcessingAI /\ alPc = "off")
    /\ [][alPc = "rejected" /\ alPc' = "off" => images' = images]_vars

\* a request on an image with a box ended, the flag cleared, after every
\* attempt of its call failed
C37_Witness ==
    /\ ~isProcessingAI /\ alPc = "off" /\ inFlight = <<>>
    /\ alError # Null /\ Len(requests) > DefaultMaxRetries
    /\ \E i \in 1..Len(images) : images[i].annotations # <<>>

\* C38: the selection is either null or the id of an annotation of the
\* active image
C38_SelectionInActiveImage ==
    \/ selectedAnnId = NoId
    \/ /\ currentImage # Null
       /\ \E i \in 1..Len(currentImage[1].annotations) :
             currentImage[1].annotations[i].id = selectedAnnId

\* the client position at which the image point p is displayed: the container
\* is rendered at Origin with transform: translate(pan) scale(zoom) about its
\* top-left corner
displayedAt(p) ==
    Pt(Add(Add(Origin.x, pan.x), Mul(zoom, p.x)), Add(Add(Origin.y, pan.y), Mul(zoom, p.y)))

\* points of the image, in unscaled pixels
ImagePoints == { Pt(I(0), I(0)), Pt(I(30), I(20)), Pt(I(100), I(50)) }

\* C39: getMousePos inverts the rendering transform: for every pan, every
\* zoom > 0 and every image point p, the position at which p is displayed is
\* mapped back to p
C39_MousePosInvertsTransform ==
    \A p \in ImagePoints : getMousePos(displayedAt(p)) = p

\* the lists before and after hold the same annotations in the same order
\* but for the geometry fields changed of the annotation id
OnlyGeometryOf(before, after, id, changed) ==
    /\ Len(after) = Len(before)
    /\ \A j \in 1..Len(before) :
          /\ before[j].id # id => after[j] = before[j]
          /\ after[j].id = before[j].id /\ after[j].labelId = before[j].labelId
          /\ \A f \in {"x", "y", "w", "h"} \ changed : after[j][f] = before[j][f]

\* the step leaves the labels and every image but the active one as they
\* were, and changes in the active one only the fields changed of annotation id
FrameOf(id, changed) ==
    /\ labels' = labels
    /\ Len(images') = Len(images)
    /\ \A i \in 1..Len(images) :
          /\ images'[i].id = images[i].id
          /\ IF images[i].id = selectedImageId
             THEN OnlyGeometryOf(images[i].annotations, images'[i].annotations, id, changed)
             ELSE images'[i] = images[i]

\* C40: a move or resize event changes only geometry fields of the one target
\* box: the number and order of annotations, every other annotation, the
\* target's id and labelId, the other images and the label list stay, and a
\* move leaves the target's w and h too
C40_MoveResizeFrame ==
    [][ /\ \A id \in 1..nextId, d \in MoveDeltas : MoveBox(id, d) => FrameOf(id, {"x", "y"})
        /\ \A g \in ResizedBoxes : ResizeBox(g) => FrameOf(selectedAnnId, {"x", "y", "w", "h"}) ]_vars

\* a box of an image holding another box was resized, in a dataset of two
\* images
C40_Witness ==
    /\ Len(images) = 2
    /\ \E i \in 1..Len(images) :
          /\ images[i].id = selectedImageId
          /\ Len(images[i].annotations) >= 2
          /\ \E j \in 1..Len(images[i].annotations) :
                /\ images[i].annotations[j].id = selectedAnnId
                /\ images[i].annotations[j].w = Num(1, 2)

====
